---- MODULE Spec2Model ----
(***************************************************************************)
(* Product sync manager and order attribution of the Shopify commission    *)
(* app: src/lib/product-sync-manager.js, src/lib/shopify-helpers.js and    *)
(* src/lib/sales-tracker.js (which also carries the backend ApiClient).    *)
(***************************************************************************)
EXTENDS Integers, Sequences, FiniteSets, Bags, TLC

\* ---------------------------------------------------------------- bounds
MaxCalls == 2        \* syncAndFetchProducts invocations in one run
MaxProducts == 2     \* products a Shopify catalog can hold
MaxTicks == 2        \* clock steps after the first instant
MaxAttrs == 2        \* note attributes an order can carry
MaxClicks == 1       \* clicks the backend holds
MaxPairs == 2        \* entries of a rate table

\* ------------------------------------------------------ program constants
batchSize == 10          \* product-sync-manager.js:156
maxAgeMinutes == 5       \* product-sync-manager.js:281

Shops == {"shopA", "shopB"}
NoShop == "none"

\* isRecentSync: maxAgeMinutes * 60 * 1000
maxAge == maxAgeMinutes * 60 * 1000

\* the clock advances by half a freshness window per step
StepMs == maxAge \div 2
StartMs == StepMs

\* Map.get of a key never set is undefined; undefined and 0 are both falsy
\* in `if (!lastSync)`, and Date.now() is never 0
Undefined == 0

VARIABLES
    syncInProgress,   \* ProductSyncManager.syncInProgress : shop -> bool
    lastSyncTime,     \* ProductSyncManager.lastSyncTime   : shop -> ms
    now,              \* Date.now()
    catalog,          \* Shopify: shop -> set of product nodes
    backend,          \* backend system of record: shop -> bag of product rows
    calls,            \* syncAndFetchProducts invocations, by slot
    resync,           \* a resyncProduct invocation
    order,            \* the order payload a webhook handed to the tracker
    clicks,           \* smart-link clicks the backend holds
    tracker,          \* the tracker's progress on the order
    sales,            \* sale records the backend stored, in arrival order
    webhook,          \* the webhook delivery a handler is serving
    commissionRates,  \* the rate table, as its (category, subcategory) entries
    calc              \* a call of the calculator: its arguments and result

syncVars == <<syncInProgress, lastSyncTime, now, catalog, backend, calls,
             resync>>
orderVars == <<order, clicks, tracker, sales, webhook>>
calcVars == <<commissionRates, calc>>

CallIds == 1..MaxCalls
ProductNums == 1..MaxProducts

\* ------------------------------------------------------- Shopify products
\* a GraphQL id "gid://shopify/<kind>/<tail>"; numeric says tail is \d+
Gid(kind, n) == [path |-> "gid://shopify/" \o kind, tail |-> n, numeric |-> TRUE]

Null == [null |-> TRUE]

\* one node of the products(first: $first) query
ShopifyProduct(n) ==
    [id |-> Gid("Product", n),
     title |-> <<"title", n>>,
     handle |-> <<"handle", n>>,
     status |-> "ACTIVE",
     productType |-> "",
     vendor |-> "",
     tags |-> <<>>,
     variants |-> << [id |-> Gid("ProductVariant", 10 * n),
                      price |-> [units |-> n, cents |-> 50],
                      sku |-> Null,
                      inventoryQuantity |-> n] >>,
     images |-> << [id |-> Gid("ProductImage", 100 * n),
                    url |-> <<"url", n>>,
                    altText |-> Null] >>,
     createdAt |-> 1,
     updatedAt |-> 1]

AllProducts == {ShopifyProduct(n) : n \in ProductNums}

\* extractShopifyId: the trailing digits of the id, else the id itself
extractShopifyId(gqlId) ==
    IF gqlId = Null THEN Null
    ELSE IF gqlId.numeric THEN gqlId.tail
    ELSE gqlId

\* parseFloat of a decimal price string "u.cc", kept in hundredths
parseFloat(price) == price.units * 100 + price.cents

formatVariant(v) ==
    [id |-> extractShopifyId(v.id),
     price |-> parseFloat(v.price),
     sku |-> v.sku,
     inventoryQuantity |-> v.inventoryQuantity]

formatImage(im) ==
    [id |-> extractShopifyId(im.id), url |-> im.url, altText |-> im.altText]

\* the record stamped with the time of the sync instead of Shopify's
formatProductStamped(shopifyProduct) ==
    [id |-> extractShopifyId(shopifyProduct.id),
     title |-> shopifyProduct.title,
     handle |-> shopifyProduct.handle,
     status |-> shopifyProduct.status,
     productType |-> shopifyProduct.productType,
     vendor |-> shopifyProduct.vendor,
     tags |-> shopifyProduct.tags,
     variants |-> [k \in 1..Len(shopifyProduct.variants) |->
                     formatVariant(shopifyProduct.variants[k])],
     images |-> [k \in 1..Len(shopifyProduct.images) |->
                   formatImage(shopifyProduct.images[k])],
     createdAt |-> shopifyProduct.createdAt,
     updatedAt |-> now]

formatProductForBackend(shopifyProduct) ==
    [id |-> extractShopifyId(shopifyProduct.id),
     title |-> shopifyProduct.title,
     handle |-> shopifyProduct.handle,
     status |-> shopifyProduct.status,
     productType |-> shopifyProduct.productType,
     vendor |-> shopifyProduct.vendor,
     tags |-> shopifyProduct.tags,
     variants |-> [k \in 1..Len(shopifyProduct.variants) |->
                     formatVariant(shopifyProduct.variants[k])],
     images |-> [k \in 1..Len(shopifyProduct.images) |->
                   formatImage(shopifyProduct.images[k])],
     createdAt |-> shopifyProduct.createdAt,
     updatedAt |-> shopifyProduct.updatedAt]

\* the products edge list comes back in id order
RECURSIVE SortedNodes(_)
SortedNodes(S) ==
    IF S = {} THEN <<>>
    ELSE LET p == CHOOSE x \in S : \A y \in S : x.id.tail <= y.id.tail
         IN <<p>> \o SortedNodes(S \ {p})

\* ------------------------------------------------------------ the backend
\* ApiClient.syncProduct: the body POSTed to /products/sync
syncProductBody(shopId, productData) ==
    [shopId |-> shopId,
     productId |-> productData.id,
     name |-> productData.title,
     price |-> IF Len(productData.variants) > 0 /\ productData.variants[1].price # 0
               THEN productData.variants[1].price ELSE 0,
     currency |-> "USD",
     status |-> productData.status,
     data |-> productData,
     lastModified |-> productData.updatedAt,
     createdAt |-> productData.createdAt]

\* rows of a bag that carry product id pid
RowsOf(store, pid) == {r \in BagToSet(store) : r.productId = pid}

RECURSIVE DropRows(_, _)
DropRows(store, rows) ==
    IF rows = {} THEN store
    ELSE LET r == CHOOSE x \in rows : TRUE
         IN DropRows([x \in (DOMAIN store) \ {r} |-> store[x]], rows \ {r})

\* POST /products/sync stores the row under (shopId, productId)
BackendSync(store, row) ==
    DropRows(store, RowsOf(store, row.productId)) (+) SetToBag({row})

ProductIdsOf(store) == {r.productId : r \in BagToSet(store)}

\* --------------------------------------------------------- sync manager
NoResults == [successful |-> 0, failed |-> 0, errors |-> <<>>]

\* one syncAndFetchProducts invocation.  pc is its suspension point; fault,
\* readFailed, okKs and failKs record what the collaborators answered;
\* running and storeAfter record what the world looked like when the call
\* started and when it settled.
IdleCall ==
    [pc |-> "idle", shopId |-> NoShop, forceRefresh |-> FALSE,
     path |-> "none", shopifyProducts |-> <<>>, i |-> 0, pending |-> {},
     results |-> NoResults, okKs |-> {}, failKs |-> {},
     outcome |-> "none", error |-> "none", fault |-> "none",
     value |-> EmptyBag, readFailed |-> FALSE,
     running |-> {}, storeAfter |-> EmptyBag]

Running(c) == calls[c].pc \notin {"idle", "done"}

\* a sync pass: from the start of the Shopify fetch to the end of the read-back
InPass(c) == calls[c].pc \in {"client", "query", "writing", "readback"}

RunningOn(shopId) == {d \in CallIds : Running(d) /\ calls[d].shopId = shopId}
PassesOn(shopId) == {d \in CallIds : InPass(d) /\ calls[d].shopId = shopId}

\* isRecentSync with the window closed at its end
isRecentSyncInclusive(shopId) ==
    LET lastSync == lastSyncTime[shopId]
    IN IF lastSync = Undefined THEN FALSE
       ELSE (now - lastSync) <= maxAge

isRecentSync(shopId) ==
    LET lastSync == lastSyncTime[shopId]
    IN IF lastSync = Undefined THEN FALSE
       ELSE (now - lastSync) < maxAge

getSyncStatus(shopId) ==
    [inProgress |-> syncInProgress[shopId],
     lastSync |-> lastSyncTime[shopId],
     isRecent |-> isRecentSync(shopId)]

\* the guard with the forceRefresh test inverted
duplicateSyncInverted(shopId, forceRefresh) == syncInProgress[shopId] /\ forceRefresh

\* if (this.syncInProgress.get(shopId) && !forceRefresh)
duplicateSync(shopId, forceRefresh) == syncInProgress[shopId] /\ ~forceRefresh

\* syncAndFetchProducts up to its first suspension point.  Invocations take
\* the slots in order, so a lower slot is an earlier invocation.
Invoke(c, shopId, forceRefresh) ==
    /\ calls[c].pc = "idle"
    /\ \A d \in CallIds : d < c => calls[d].pc # "idle"
    /\ LET me == [IdleCall EXCEPT !.shopId = shopId,
                                  !.forceRefresh = forceRefresh,
                                  !.running = RunningOn(shopId)]
       IN IF duplicateSync(shopId, forceRefresh)
          THEN /\ calls' = [calls EXCEPT ![c] =
                               [me EXCEPT !.pc = "scread", !.path = "guard"]]
               /\ UNCHANGED syncInProgress
          ELSE IF ~forceRefresh /\ isRecentSync(shopId)
          THEN \* flag set, backend read issued, finally clears the flag
               /\ calls' = [calls EXCEPT ![c] =
                               [me EXCEPT !.pc = "scread", !.path = "stale"]]
               /\ syncInProgress' = [syncInProgress EXCEPT ![shopId] = FALSE]
          ELSE /\ calls' = [calls EXCEPT ![c] =
                               [me EXCEPT !.pc = "client", !.path = "pass"]]
               /\ syncInProgress' = [syncInProgress EXCEPT ![shopId] = TRUE]
    /\ UNCHANGED <<lastSyncTime, now, catalog, backend>>

\* the error path without the finally block
RejectNoFinally(c, fault, message) ==
    /\ calls' = [calls EXCEPT ![c].pc = "done",
                              ![c].outcome = "rejected",
                              ![c].fault = fault,
                              ![c].error = message,
                              ![c].storeAfter = backend[calls[c].shopId]]
    /\ UNCHANGED <<syncInProgress, lastSyncTime, now, catalog, backend>>

\* catch (error) { throw error } finally { syncInProgress.set(shopId, false) }
Reject(c, fault, message) ==
    /\ calls' = [calls EXCEPT ![c].pc = "done",
                              ![c].outcome = "rejected",
                              ![c].fault = fault,
                              ![c].error = message,
                              ![c].storeAfter = backend[calls[c].shopId]]
    /\ syncInProgress' = [syncInProgress EXCEPT ![calls[c].shopId] = FALSE]
    /\ UNCHANGED <<lastSyncTime, now, catalog, backend>>

\* getShopifyClient resolves inside fetchShopifyProducts; the query is sent
ClientResolved(c, client) ==
    /\ calls[c].pc = "client"
    /\ IF client
       THEN /\ calls' = [calls EXCEPT ![c].pc = "query"]
            /\ UNCHANGED <<syncInProgress, lastSyncTime, now, catalog, backend>>
       ELSE Reject(c, "noclient", "Could not create Shopify client")

\* what the Shopify response carried, kept with the call
envelopeOf(response) == IF response = "errors" THEN "errors" ELSE "none"

\* the response handled without looking at body.errors
bodyErrorsIgnored(response) == FALSE

\* if (response.body.errors)
bodyErrors(response) == response = "errors"

\* the test for an empty fetch left out
noProductsIgnored(shopifyProducts) == FALSE

\* if (!shopifyProducts || shopifyProducts.length === 0)
noProducts(shopifyProducts) == Len(shopifyProducts) = 0

\* every remaining product taken as one batch
BatchOfRest(i, n) == {k \in 1..n : i < k}

\* shopifyProducts.slice(i, i + batchSize), as 1-based positions
BatchOf(i, n) == {k \in 1..n : i < k /\ k <= i + batchSize}

\* client.query settles; on products the first write batch is issued
QueryResolved(c, response) ==
    /\ calls[c].pc = "query"
    /\ LET shopId == calls[c].shopId
           products == SortedNodes(catalog[shopId])
       IN IF response = "throw"
          THEN Reject(c, "network", "network")
          ELSE IF bodyErrors(response)
          THEN Reject(c, "errors", "Shopify GraphQL errors")
          ELSE IF noProducts(products)
          THEN /\ calls' = [calls EXCEPT ![c].pc = "done",
                                         ![c].outcome = "returned",
                                         ![c].fault = envelopeOf(response),
                                         ![c].value = EmptyBag,
                                         ![c].storeAfter = backend[shopId]]
               /\ syncInProgress' = [syncInProgress EXCEPT ![shopId] = FALSE]
               /\ UNCHANGED <<lastSyncTime, now, catalog, backend>>
          ELSE /\ calls' = [calls EXCEPT ![c].pc = "writing",
                                         ![c].fault = envelopeOf(response),
                                         ![c].shopifyProducts = products,
                                         ![c].i = 0,
                                         ![c].pending = BatchOf(0, Len(products))]
               /\ UNCHANGED <<syncInProgress, lastSyncTime, now, catalog, backend>>

\* the bookkeeping with the failure counter left alone
recordOutcomeUncounted(results, shopifyProduct, ok) ==
    IF ok
    THEN [results EXCEPT !.successful = @ + 1]
    ELSE [results EXCEPT !.errors = Append(@, [productId |-> shopifyProduct.id,
                                               error |-> "rejected"])]

\* the bookkeeping of one settled write: results.successful++ or
\* results.failed++ with an errors entry
recordOutcome(results, shopifyProduct, ok) ==
    IF ok
    THEN [results EXCEPT !.successful = @ + 1]
    ELSE [results EXCEPT !.failed = @ + 1,
                         !.errors = Append(@, [productId |-> shopifyProduct.id,
                                               error |-> "rejected"])]

\* one apiClient.syncProduct of the current batch settles; the last one of
\* a batch releases Promise.allSettled, which issues the next batch or,
\* after the last batch, the backend read-back
WriteSettled(c, k, ok) ==
    /\ calls[c].pc = "writing"
    /\ k \in calls[c].pending
    /\ LET shopId == calls[c].shopId
           shopifyProduct == calls[c].shopifyProducts[k]
           formattedProduct == formatProductForBackend(shopifyProduct)
           rest == calls[c].pending \ {k}
           n == Len(calls[c].shopifyProducts)
           nexti == calls[c].i + batchSize
           after == [calls[c] EXCEPT
                        !.results = recordOutcome(@, shopifyProduct, ok),
                        !.okKs = IF ok THEN @ \cup {k} ELSE @,
                        !.failKs = IF ok THEN @ ELSE @ \cup {k},
                        !.pending = rest]
       IN /\ backend' = IF ok
                        THEN [backend EXCEPT ![shopId] =
                                 BackendSync(@, syncProductBody(shopId, formattedProduct))]
                        ELSE backend
          /\ calls' = [calls EXCEPT ![c] =
                IF rest # {} THEN after
                ELSE IF nexti < n
                THEN [after EXCEPT !.i = nexti, !.pending = BatchOf(nexti, n)]
                ELSE [after EXCEPT !.pc = "readback"]]
    /\ UNCHANGED <<syncInProgress, lastSyncTime, now, catalog>>

\* getProductsFromBackend: the rows of the shop; a failed read is caught
\* and becomes []
getProductsFromBackend(shopId, ok) ==
    IF ok THEN backend[shopId] ELSE EmptyBag

\* the short-circuit read followed by the finally block of a pass
ShortCircuitReadClears(c, ok) ==
    /\ calls[c].pc = "scread"
    /\ calls' = [calls EXCEPT ![c].pc = "done",
                              ![c].outcome = "returned",
                              ![c].readFailed = ~ok,
                              ![c].storeAfter = backend[calls[c].shopId],
                              ![c].value = IF ok THEN backend[calls[c].shopId]
                                           ELSE EmptyBag]
    /\ syncInProgress' = [syncInProgress EXCEPT ![calls[c].shopId] = FALSE]
    /\ UNCHANGED <<lastSyncTime, now, catalog, backend>>

\* the backend read of a short-circuited call settles
ShortCircuitRead(c, ok) ==
    /\ calls[c].pc = "scread"
    /\ calls' = [calls EXCEPT ![c].pc = "done",
                              ![c].outcome = "returned",
                              ![c].readFailed = ~ok,
                              ![c].storeAfter = backend[calls[c].shopId],
                              ![c].value = getProductsFromBackend(calls[c].shopId, ok)]
    /\ UNCHANGED <<syncInProgress, lastSyncTime, now, catalog, backend>>

\* the read-back stamping the sync time only when no write failed
ReadBackStampsIfClean(c, ok) ==
    /\ calls[c].pc = "readback"
    /\ calls' = [calls EXCEPT ![c].pc = "done",
                              ![c].outcome = "returned",
                              ![c].readFailed = ~ok,
                              ![c].storeAfter = backend[calls[c].shopId],
                              ![c].value = IF ok THEN backend[calls[c].shopId]
                                           ELSE EmptyBag]
    /\ lastSyncTime' = IF calls[c].failKs = {}
                       THEN [lastSyncTime EXCEPT ![calls[c].shopId] = now]
                       ELSE lastSyncTime
    /\ syncInProgress' = [syncInProgress EXCEPT ![calls[c].shopId] = FALSE]
    /\ UNCHANGED <<now, catalog, backend>>

\* the read-back of a pass settles: stamp the sync time, return, clear flag
ReadBack(c, ok) ==
    /\ calls[c].pc = "readback"
    /\ LET shopId == calls[c].shopId
       IN /\ calls' = [calls EXCEPT ![c].pc = "done",
                                    ![c].outcome = "returned",
                                    ![c].readFailed = ~ok,
                                    ![c].storeAfter = backend[shopId],
                                    ![c].value = getProductsFromBackend(shopId, ok)]
          /\ lastSyncTime' = [lastSyncTime EXCEPT ![shopId] = now]
          /\ syncInProgress' = [syncInProgress EXCEPT ![shopId] = FALSE]
    /\ UNCHANGED <<now, catalog, backend>>

\* ------------------------------------------------------- resyncProduct
\* one resyncProduct invocation: pc is its suspension point
NoResync ==
    [pc |-> "idle", shopId |-> NoShop, productId |-> 0,
     outcome |-> "none", error |-> "none", value |-> {}]

\* resyncProduct up to its first suspension point, getShopifyClient
ResyncInvoke(shopId, productId) ==
    /\ resync.pc = "idle"
    /\ resync' = [resync EXCEPT !.pc = "client", !.shopId = shopId,
                                !.productId = productId]
    /\ UNCHANGED <<syncInProgress, lastSyncTime, now, catalog, backend, calls>>

\* the catch of resyncProduct followed by a finally block like that of
\* syncAndFetchProducts
ResyncRejectClearsFlag(message) ==
    /\ resync' = [resync EXCEPT !.pc = "done", !.outcome = "rejected",
                                !.error = message]
    /\ syncInProgress' = [syncInProgress EXCEPT ![resync.shopId] = FALSE]
    /\ UNCHANGED <<lastSyncTime, now, catalog, backend, calls>>

\* catch (error) { console.error(...); throw error }
ResyncReject(message) ==
    /\ resync' = [resync EXCEPT !.pc = "done", !.outcome = "rejected",
                                !.error = message]
    /\ UNCHANGED <<syncInProgress, lastSyncTime, now, catalog, backend, calls>>

\* getShopifyClient resolves; with a client the product query is sent
ResyncClient(client) ==
    /\ resync.pc = "client"
    /\ IF client
       THEN /\ resync' = [resync EXCEPT !.pc = "query"]
            /\ UNCHANGED <<syncInProgress, lastSyncTime, now, catalog, backend,
                           calls>>
       ELSE ResyncReject("Could not create Shopify client")

\* response.body.data.product: the product of that id, null without one
productOf(shopId, productId) ==
    LET found == {p \in catalog[shopId] : p.id.tail = productId}
    IN IF found = {} THEN Null ELSE CHOOSE p \in found : TRUE

\* client.query settles; a product found is formatted and its write issued
ResyncQuery(response) ==
    /\ resync.pc = "query"
    /\ IF response = "throw" THEN ResyncReject("network")
       ELSE IF bodyErrors(response) THEN ResyncReject("Shopify GraphQL errors")
       ELSE IF productOf(resync.shopId, resync.productId) = Null
       THEN ResyncReject("not found in Shopify")
       ELSE /\ resync' = [resync EXCEPT !.pc = "write"]
            /\ UNCHANGED <<syncInProgress, lastSyncTime, now, catalog, backend,
                           calls>>

\* apiClient.syncProduct settles; the read of the product is issued
ResyncWrite(ok) ==
    /\ resync.pc = "write"
    /\ IF ok
       THEN /\ backend' = [backend EXCEPT ![resync.shopId] =
                   BackendSync(@, syncProductBody(resync.shopId,
                       formatProductForBackend(
                           productOf(resync.shopId, resync.productId))))]
            /\ resync' = [resync EXCEPT !.pc = "read"]
            /\ UNCHANGED <<syncInProgress, lastSyncTime, now, catalog, calls>>
       ELSE ResyncReject("rejected")

\* apiClient.getProducts(shopId, productId) settles: backendResponse.data
ResyncRead(ok) ==
    /\ resync.pc = "read"
    /\ IF ok
       THEN /\ resync' = [resync EXCEPT
                   !.pc = "done", !.outcome = "returned",
                   !.value = RowsOf(backend[resync.shopId], resync.productId)]
            /\ UNCHANGED <<syncInProgress, lastSyncTime, now, catalog, backend,
                           calls>>
       ELSE ResyncReject("rejected")

\* ------------------------------------------------------------ environment
Tick ==
    /\ now < StartMs + MaxTicks * StepMs
    /\ now' = now + StepMs
    /\ UNCHANGED <<syncInProgress, lastSyncTime, catalog, backend, calls>>

\* the merchant removes a product from the Shopify catalog
CatalogRemove(shopId, p) ==
    /\ p \in catalog[shopId]
    /\ catalog' = [catalog EXCEPT ![shopId] = @ \ {p}]
    /\ UNCHANGED <<syncInProgress, lastSyncTime, now, backend, calls>>

\* invocations made one after another: none starts while another runs
InvokeAlone(c, shopId, forceRefresh) ==
    /\ \A d \in CallIds : ~Running(d)
    /\ Invoke(c, shopId, forceRefresh)

\* sequences over S of length at most n
SeqsUpTo(S, n) == UNION {[1..m -> S] : m \in 0..n}

\* ---------------------------------------------------------------- strings
\* String.prototype.indexOf, and replace of the first occurrence
indexOf(s, t) ==
    LET hits == {i \in 0..(Len(s) - Len(t)) : SubSeq(s, i + 1, i + Len(t)) = t}
    IN IF hits = {} THEN -1 ELSE CHOOSE i \in hits : \A j \in hits : i <= j

replace(s, t, r) ==
    LET i == indexOf(s, t)
    IN IF i = -1 THEN s
       ELSE SubSeq(s, 1, i) \o r \o SubSeq(s, i + Len(t) + 1, Len(s))

includes(s, t) == indexOf(s, t) # -1

\* the lower-case letter of each upper-case letter
lowerCaseOf ==
    [A |-> "a", B |-> "b", C |-> "c", D |-> "d", E |-> "e", F |-> "f",
     G |-> "g", H |-> "h", I |-> "i", J |-> "j", K |-> "k", L |-> "l",
     M |-> "m", N |-> "n", O |-> "o", P |-> "p", Q |-> "q", R |-> "r",
     S |-> "s", T |-> "t", U |-> "u", V |-> "v", W |-> "w", X |-> "x",
     Y |-> "y", Z |-> "z"]

RECURSIVE toLowerCase(_)
toLowerCase(s) ==
    IF s = "" THEN ""
    ELSE (IF SubSeq(s, 1, 1) \in DOMAIN lowerCaseOf
          THEN lowerCaseOf[SubSeq(s, 1, 1)]
          ELSE SubSeq(s, 1, 1))
         \o toLowerCase(SubSeq(s, 2, Len(s)))

RECURSIVE trim(_)
trim(s) ==
    IF s = "" THEN ""
    ELSE IF SubSeq(s, 1, 1) = " " THEN trim(SubSeq(s, 2, Len(s)))
    ELSE IF SubSeq(s, Len(s), Len(s)) = " " THEN trim(SubSeq(s, 1, Len(s) - 1))
    ELSE s

\* Array.prototype.join of strings
RECURSIVE join(_, _)
join(strs, sep) ==
    IF Len(strs) = 0 THEN ""
    ELSE IF Len(strs) = 1 THEN strs[1]
    ELSE strs[1] \o sep \o join(Tail(strs), sep)

\* --------------------------------------------------- JavaScript values
\* a value of a product field: a string, a number, an array, or null /
\* undefined (Null)
Str(s) == [type |-> "string", str |-> s]
Num(n) == [type |-> "number", num |-> n]
Arr(items) == [type |-> "array", items |-> items]

\* what a function that throws gives its caller
Thrown == [thrown |-> TRUE]

\* !v
falsy(v) ==
    \/ v = Null
    \/ v.type = "string" /\ v.str = ""
    \/ v.type = "number" /\ v.num = 0

\* the field of an object, undefined when the object has none
field(obj, name) == IF name \in DOMAIN obj THEN obj[name] ELSE Null

\* NaN, and the arithmetic of numbers kept in hundredths
NaN == [type |-> "NaN"]

Digits == "0123456789"

\* the value of the leading run of digits of s after acc, and what follows
RECURSIVE leadingDigits(_, _, _)
leadingDigits(s, acc, n) ==
    IF s = "" \/ indexOf(Digits, SubSeq(s, 1, 1)) = -1
    THEN [value |-> acc, count |-> n, rest |-> s]
    ELSE leadingDigits(SubSeq(s, 2, Len(s)),
                       10 * acc + indexOf(Digits, SubSeq(s, 1, 1)), n + 1)

\* the first two decimals of a fraction of count digits, in hundredths
centsOf(digits, count) ==
    IF count = 0 THEN 0
    ELSE IF count = 1 THEN 10 * leadingDigits(digits, 0, 0).value
    ELSE leadingDigits(SubSeq(digits, 1, 2), 0, 0).value

\* the number made of the digits before and after the point
decimalOf(whole, frac, digits) ==
    IF whole.count = 0 /\ frac.count = 0 THEN NaN
    ELSE Num(100 * whole.value + centsOf(digits, frac.count))

\* what follows the point in rest, "" when rest starts with none
afterPoint(rest) ==
    IF rest # "" /\ SubSeq(rest, 1, 1) = "." THEN SubSeq(rest, 2, Len(rest)) ELSE ""

fractionOf(whole, digits) == decimalOf(whole, leadingDigits(digits, 0, 0), digits)

wholeOf(whole) == fractionOf(whole, afterPoint(whole.rest))

\* parseFloat of a string: the decimal number it starts with (to two
\* places), NaN when it starts with none
parseFloatOfString(s) == wholeOf(leadingDigits(trim(s), 0, 0))

\* parseFloat of a value
parseFloatOf(v) ==
    IF v = Null THEN NaN
    ELSE IF v.type = "number" THEN v
    ELSE IF v.type = "string" THEN parseFloatOfString(v.str)
    ELSE NaN

\* ---------------------------------------------- JavaScript arithmetic
\* A Number is an IEEE 754 double: m * 2^e with m below 2^53.  m is held
\* as its limbs to the base 2^15, lowest first, so that every step stays
\* within the integers at hand.
LimbBits == 15
Limb == 32768

\* the limbs of a non-negative integer
RECURSIVE limbsOf(_)
limbsOf(n) == IF n = 0 THEN <<>> ELSE <<n % Limb>> \o limbsOf(n \div Limb)

\* the integer of a few limbs
RECURSIVE intOf(_)
intOf(N) == IF N = <<>> THEN 0 ELSE N[1] + Limb * intOf(Tail(N))

\* N without leading zero limbs
RECURSIVE trimLimbs(_)
trimLimbs(N) ==
    IF N = <<>> THEN <<>>
    ELSE IF N[Len(N)] = 0 THEN trimLimbs(SubSeq(N, 1, Len(N) - 1))
    ELSE N

\* N * a + carry for 0 < a <= Limb
RECURSIVE timesSmall(_, _, _)
timesSmall(N, a, carry) ==
    IF N = <<>> THEN limbsOf(carry)
    ELSE <<(N[1] * a + carry) % Limb>>
            \o timesSmall(Tail(N), a, (N[1] * a + carry) \div Limb)

\* one limb of a long division: the higher limbs divided, then this one
divideLimb(high, limb, d) ==
    [q |-> <<(high.r * Limb + limb) \div d>> \o high.q,
     r |-> (high.r * Limb + limb) % d]

\* N divided by d for 0 < d <= Limb: quotient limbs (untrimmed), remainder
RECURSIVE overSmall(_, _)
overSmall(N, d) ==
    IF N = <<>> THEN [q |-> <<>>, r |-> 0]
    ELSE divideLimb(overSmall(Tail(N), d), N[1], d)

\* number of binary digits of a small integer, of limbs
RECURSIVE bitsOfInt(_)
bitsOfInt(n) == IF n = 0 THEN 0 ELSE 1 + bitsOfInt(n \div 2)

bitsOf(N) ==
    IF N = <<>> THEN 0 ELSE LimbBits * (Len(N) - 1) + bitsOfInt(N[Len(N)])

RECURSIVE pow2(_)
pow2(k) == IF k = 0 THEN 1 ELSE 2 * pow2(k - 1)

\* floor(N / 2^k)
shiftRight(N, k) ==
    trimLimbs(overSmall(SubSeq(N, (k \div LimbBits) + 1, Len(N)),
                        pow2(k % LimbBits)).q)

\* round to nearest, ties to even: q holds 54 binary digits, the last one
\* the rounding digit; sticky says digits were lost beyond it
nearestEven(q, sticky, e) ==
    IF q[1] % 2 = 1 /\ (sticky \/ (q[1] \div 2) % 2 = 1)
    THEN [m |-> trimLimbs(overSmall(timesSmall(q, 1, 1), 2).q), e |-> e + 1]
    ELSE [m |-> trimLimbs(overSmall(q, 2).q), e |-> e + 1]

\* the double nearest to (N / d) * 2^e, for N # 0 and small d
RECURSIVE roundTo53(_, _, _)

roundQuotient(N, d, e, quotient) ==
    IF bitsOf(trimLimbs(quotient.q)) + LimbBits <= 54
    THEN roundTo53(<<0>> \o N, d, e - LimbBits)
    ELSE IF bitsOf(trimLimbs(quotient.q)) < 54
    THEN roundTo53(timesSmall(N, 2, 0), d, e - 1)
    ELSE IF bitsOf(trimLimbs(quotient.q)) > 54
    THEN roundTo53(N, 2 * d, e + 1)
    ELSE nearestEven(trimLimbs(quotient.q), quotient.r # 0, e)

roundTo53(N, d, e) == roundQuotient(N, d, e, overSmall(N, d))

Zero == [m |-> <<>>, e |-> 0]

\* the double of a decimal literal with two places, given in hundredths
doubleOf(hundredths) ==
    IF hundredths = 0 THEN Zero ELSE roundTo53(limbsOf(hundredths), 100, 0)

\* x * n for a small whole number n, and x / 100
times(x, n) ==
    IF x = Zero \/ n = 0 THEN Zero ELSE roundTo53(timesSmall(x.m, n, 0), 1, x.e)

over100(x) == IF x = Zero THEN Zero ELSE roundTo53(x.m, 100, x.e)

\* Number.prototype.toFixed(2), in hundredths: the integer n for which
\* n / 100 - x is closest to zero, the larger when there are two
toFixed2(x) ==
    IF x = Zero THEN 0
    ELSE (intOf(shiftRight(timesSmall(x.m, 200, 0), 0 - x.e)) + 1) \div 2

\* ------------------------------------------------ commission calculator
defaultRate == 15

\* the keyword mappings of isFuzzyMatch
keywordMappings ==
    << [key |-> "phones & tablets",
        words |-> <<"phone", "mobile", "smartphone", "tablet", "ipad", "iphone", "android">>],
       [key |-> "phones",
        words |-> <<"phone", "mobile", "smartphone", "iphone", "android">>],
       [key |-> "accessories",
        words |-> <<"case", "cover", "charger", "cable", "accessory", "screen protector">>],
       [key |-> "appliances",
        words |-> <<"appliance", "refrigerator", "washing machine", "dryer", "dishwasher">>],
       [key |-> "electronics", words |-> <<"electronic", "gadget", "device">>],
       [key |-> "computing & gaming",
        words |-> <<"computer", "laptop", "desktop", "gaming", "console", "pc">>],
       [key |-> "cameras",
        words |-> <<"camera", "photography", "lens", "dslr", "mirrorless">>],
       [key |-> "tv", words |-> <<"television", "tv", "smart tv", "monitor", "display">>],
       [key |-> "audio", words |-> <<"headphones", "speaker", "audio", "earbuds", "sound">>],
       [key |-> "fashion", words |-> <<"clothing", "fashion", "apparel", "wear">>],
       [key |-> "men", words |-> <<"men", "mens", "male", "gentleman">>],
       [key |-> "women", words |-> <<"women", "womens", "female", "ladies">>],
       [key |-> "kids & babies",
        words |-> <<"kids", "children", "baby", "infant", "toddler">>],
       [key |-> "shoes", words |-> <<"shoes", "sneakers", "boots", "sandals", "footwear">>],
       [key |-> "beauty & health", words |-> <<"beauty", "health", "cosmetics", "skincare">>],
       [key |-> "makeup", words |-> <<"makeup", "cosmetics", "lipstick", "foundation">>],
       [key |-> "home & living", words |-> <<"home", "house", "living", "household">>],
       [key |-> "furniture", words |-> <<"furniture", "chair", "table", "bed", "sofa">>],
       [key |-> "sports & outdoors", words |-> <<"sports", "outdoor", "fitness", "exercise">>],
       [key |-> "automotive", words |-> <<"car", "auto", "vehicle", "automotive">>],
       [key |-> "groceries", words |-> <<"food", "grocery", "snack", "beverage">>],
       [key |-> "books", words |-> <<"book", "reading", "literature">>],
       [key |-> "toys & games", words |-> <<"toy", "game", "play", "puzzle">>],
       [key |-> "pet supplies", words |-> <<"pet", "dog", "cat", "animal">>] >>

\* keywordMappings[key] || []
keywordsOf(key) ==
    LET hits == {k \in 1..Len(keywordMappings) : keywordMappings[k].key = key}
    IN IF hits = {} THEN <<>> ELSE keywordMappings[CHOOSE k \in hits : TRUE].words

\* (value || '').toLowerCase().trim(): the string, or the TypeError of a
\* truthy value that is no string
lowerTrim(v) ==
    IF falsy(v) THEN [thrown |-> FALSE, str |-> ""]
    ELSE IF v.type = "string"
    THEN [thrown |-> FALSE, str |-> trim(toLowerCase(v.str))]
    ELSE [thrown |-> TRUE, str |-> ""]

\* (product.tags || []).map(tag => tag.toLowerCase().trim())
lowerTags(v) ==
    IF falsy(v) THEN [thrown |-> FALSE, strs |-> <<>>]
    ELSE IF v.type # "array" THEN [thrown |-> TRUE, strs |-> <<>>]
    ELSE IF \E k \in 1..Len(v.items) :
                v.items[k] = Null \/ v.items[k].type # "string"
    THEN [thrown |-> TRUE, strs |-> <<>>]
    ELSE [thrown |-> FALSE,
          strs |-> [k \in 1..Len(v.items) |-> trim(toLowerCase(v.items[k].str))]]

isExactMatch(productType, category, subcategory) ==
    LET categoryLower == toLowerCase(category)
        subcategoryLower == toLowerCase(subcategory)
    IN \/ productType = categoryLower
       \/ productType = subcategoryLower
       \/ includes(productType, categoryLower)
       \/ includes(productType, subcategoryLower)

isTagMatch(tags, category, subcategory) ==
    LET categoryLower == toLowerCase(category)
        subcategoryLower == toLowerCase(subcategory)
    IN \E k \in 1..Len(tags) :
          \/ tags[k] = categoryLower
          \/ tags[k] = subcategoryLower
          \/ includes(tags[k], categoryLower)
          \/ includes(tags[k], subcategoryLower)

\* the title rule with the arguments of includes the other way round
isTitleMatchSwapped(title, category, subcategory) ==
    LET categoryLower == toLowerCase(category)
        subcategoryLower == toLowerCase(subcategory)
    IN includes(categoryLower, title) \/ includes(subcategoryLower, title)

isTitleMatch(title, category, subcategory) ==
    LET categoryLower == toLowerCase(category)
        subcategoryLower == toLowerCase(subcategory)
    IN includes(title, categoryLower) \/ includes(title, subcategoryLower)

isVendorMatch(vendor, category, subcategory) ==
    LET categoryLower == toLowerCase(category)
        subcategoryLower == toLowerCase(subcategory)
    IN includes(vendor, categoryLower) \/ includes(vendor, subcategoryLower)

isFuzzyMatch(productType, title, tags, category, subcategory) ==
    LET allText == toLowerCase(productType \o " " \o title \o " " \o join(tags, " "))
        categoryKeywords == keywordsOf(toLowerCase(category))
        subcategoryKeywords == keywordsOf(toLowerCase(subcategory))
    IN \/ \E k \in 1..Len(categoryKeywords) : includes(allText, categoryKeywords[k])
       \/ \E k \in 1..Len(subcategoryKeywords) : includes(allText, subcategoryKeywords[k])

\* the condition of the first loop with the fuzzy rule tried on the same
\* entry
anyRule(productType, tags, title, vendor, pair) ==
    \/ isExactMatch(productType, pair.category, pair.subcategory)
    \/ isTagMatch(tags, pair.category, pair.subcategory)
    \/ isTitleMatch(title, pair.category, pair.subcategory)
    \/ isVendorMatch(vendor, pair.category, pair.subcategory)
    \/ isFuzzyMatch(productType, title, tags, pair.category, pair.subcategory)

\* the condition of the first loop of matchProductCategory
anyExactRule(productType, tags, title, vendor, pair) ==
    \/ isExactMatch(productType, pair.category, pair.subcategory)
    \/ isTagMatch(tags, pair.category, pair.subcategory)
    \/ isTitleMatch(title, pair.category, pair.subcategory)
    \/ isVendorMatch(vendor, pair.category, pair.subcategory)

\* the first loop over the table, from entry k: "Check exact matches first"
RECURSIVE exactLoop(_, _, _, _, _)
exactLoop(productType, tags, title, vendor, k) ==
    IF k > Len(commissionRates) THEN Null
    ELSE IF anyExactRule(productType, tags, title, vendor, commissionRates[k])
    THEN commissionRates[k]
    ELSE exactLoop(productType, tags, title, vendor, k + 1)

\* the second loop, from entry k: "Try fuzzy matching if no exact match"
RECURSIVE fuzzyLoop(_, _, _, _)
fuzzyLoop(productType, title, tags, k) ==
    IF k > Len(commissionRates) THEN Null
    ELSE IF isFuzzyMatch(productType, title, tags,
                         commissionRates[k].category, commissionRates[k].subcategory)
    THEN commissionRates[k]
    ELSE fuzzyLoop(productType, title, tags, k + 1)

\* the fields of a product as matchProductCategory reads them
fieldsThrow(productType, tags, title, vendor) ==
    productType.thrown \/ tags.thrown \/ title.thrown \/ vendor.thrown

\* the second loop run before the first
fuzzyBeforeExact(exact, productType, title, tags) ==
    IF fuzzyLoop(productType, title, tags, 1) # Null
    THEN fuzzyLoop(productType, title, tags, 1)
    ELSE exact

\* return of the first loop, else the second loop
exactOrFuzzy(exact, productType, title, tags) ==
    IF exact # Null THEN exact ELSE fuzzyLoop(productType, title, tags, 1)

\* matchProductCategory on the normalised fields: the two loops
matchFields(productType, tags, title, vendor) ==
    IF fieldsThrow(productType, tags, title, vendor) THEN Thrown
    ELSE exactOrFuzzy(exactLoop(productType.str, tags.strs, title.str, vendor.str, 1),
                      productType.str, title.str, tags.strs)

\* matchProductCategory: the table entry matched, null for none, or the
\* TypeError of a malformed product
matchProductCategory(product) ==
    IF product = Null THEN Thrown
    ELSE matchFields(lowerTrim(field(product, "productType")),
                     lowerTags(field(product, "tags")),
                     lowerTrim(field(product, "title")),
                     lowerTrim(field(product, "vendor")))

\* the result calculateCommissionRate makes of what matchProductCategory
\* gave: a match, no match, or (in its catch) an error
rateInfoOf(category) ==
    IF category = Thrown
    THEN [rate |-> defaultRate, category |-> "Other",
          subcategory |-> "Error", isDefault |-> TRUE]
    ELSE IF category # Null
    THEN [rate |-> category.rate, category |-> category.category,
          subcategory |-> category.subcategory, isDefault |-> FALSE]
    ELSE [rate |-> defaultRate, category |-> "Other",
          subcategory |-> "Uncategorized", isDefault |-> TRUE]

calculateCommissionRate(product) == rateInfoOf(matchProductCategory(product))

\* product.variants[0].price || 0, parsed
variantPrice(variant) ==
    IF falsy(field(variant, "price")) THEN Num(0) ELSE parseFloatOf(variant.price)

\* the price of the first variant, 0 without variants
firstVariantPrice(variants) ==
    IF variants # Null /\ variants.type = "array" /\ Len(variants.items) > 0
    THEN variantPrice(variants.items[1])
    ELSE Num(0)

\* extractProductPrice: the number, or the TypeError of product.price on
\* null
extractProductPrice(product) ==
    IF product = Null THEN Thrown
    ELSE IF ~falsy(field(product, "price")) THEN parseFloatOf(product.price)
    ELSE firstVariantPrice(field(product, "variants"))

\* parseFloat(((productPrice * rate) / 100).toFixed(2)), in hundredths
commissionValueOf(productPrice, rate) ==
    IF productPrice = NaN THEN NaN
    ELSE Num(toFixed2(over100(times(doubleOf(productPrice.num), rate))))

\* { ...rateInfo, price: productPrice, value }
commissionOf(rateInfo, productPrice) ==
    [rate |-> rateInfo.rate, category |-> rateInfo.category,
     subcategory |-> rateInfo.subcategory, isDefault |-> rateInfo.isDefault,
     price |-> productPrice,
     value |-> commissionValueOf(productPrice, rateInfo.rate)]

\* calculateCommissionValue once the price is there; an error thrown by
\* extractProductPrice goes to the caller
valueAtPrice(product, productPrice) ==
    IF productPrice = Thrown THEN Thrown
    ELSE commissionOf(calculateCommissionRate(product), productPrice)

\* calculateCommissionValue: the result, or the error it throws
calculateCommissionValue(product, price) ==
    valueAtPrice(product,
                 IF ~falsy(price) THEN price ELSE extractProductPrice(product))

\* the entries a rate table is made of: category, subcategory, percentage
RatePairs ==
    {[category |-> "Supermarket", subcategory |-> "Groceries", rate |-> 6],
     [category |-> "Electronics", subcategory |-> "TV", rate |-> 5],
     [category |-> "Fashion", subcategory |-> "Men", rate |-> 10]}

\* rate tables in iteration order, no (category, subcategory) twice
RateTables ==
    {t \in SeqsUpTo(RatePairs, MaxPairs) :
        \A j, k \in 1..Len(t) : j # k => t[j] # t[k]}

\* the table the tracker's calculator is loaded with
SampleRates ==
    << [category |-> "Phones & Tablets", subcategory |-> "Phones", rate |-> 4],
       [category |-> "Electronics", subcategory |-> "TV", rate |-> 5] >>

\* products handed to the calculator: descriptors with every combination
\* of label, title, tags, vendor and price, and the malformed ones
WellFormedProducts ==
    [productType : {Null, Str(" TV ")},
     title : {Str(""), Str("Monitor"), Str("Male Shirt")},
     tags : {Arr(<<>>), Arr(<<Str("Groceries")>>), Arr(<<Str("sale"), Str("Gadget")>>)},
     vendor : {Str(""), Str("TV World")},
     price : {Null, Num(1999)}]

EmptyProduct ==
    [productType |-> Str(""), title |-> Str(""), tags |-> Arr(<<>>),
     vendor |-> Str("")]

MalformedProducts ==
    {Null,
     [EmptyProduct EXCEPT !.tags = Str("groceries")],
     [EmptyProduct EXCEPT !.tags = Arr(<<Num(5)>>)],
     [EmptyProduct EXCEPT !.title = Num(7)]}

CalcProducts ==
    WellFormedProducts \cup MalformedProducts
        \cup {EmptyProduct, [title |-> Str("Gadget")],
              [price |-> Num(500)],
              [price |-> Num(10)],
              [price |-> Str("free")],
              [variants |-> Arr(<<[price |-> Str("n/a")]>>)],
              [variants |-> Arr(<<[sku |-> Str("A1")]>>)],
              [title |-> Str("Monitor"),
               variants |-> Arr(<<[price |-> Str("12.50")]>>)]}

\* the price argument: left out, or given
CalcPrices == {Null, Num(0), Num(670), Num(1000)}

NoCalc == [pc |-> "none", product |-> Null, price |-> Null, result |-> Null]

\* calculateCommissionRate(product) is called
CalculateRate ==
    /\ calc.pc = "start"
    /\ calc' = [calc EXCEPT !.pc = "rate",
                            !.result = calculateCommissionRate(calc.product)]
    /\ UNCHANGED commissionRates

\* calculateCommissionValue(product, price) is called: it returns, or throws
CalculateValue ==
    /\ calc.pc = "start"
    /\ LET result == calculateCommissionValue(calc.product, calc.price)
       IN calc' = [calc EXCEPT !.pc = IF result = Thrown THEN "threw" ELSE "value",
                               !.result = result]
    /\ UNCHANGED commissionRates

\* -------------------------------------------------------- sales tracker
Hour == 60 * 60 * 1000
Minute == 60 * 1000

\* the order under study is created two days into the clock
OrderTime == 48 * Hour

\* a click whose smart link names no product, a line item that names none
\* (productId / product_id null or undefined)
NoProductId == 0

AttrNames == {"commission_track_id", "gift_note"}
AttrValues == {"trk1", "trk2"}
NoteAttrs == [name : AttrNames, value : AttrValues]

\* a line item of an order payload
LineItem(n) ==
    [product_id |-> n,
     title |-> IF n = 1 THEN "Male TV" ELSE "Gift Card",
     product_type |-> "",
     vendor |-> "",
     price |-> [units |-> 10 * n, cents |-> 0],
     quantity |-> n]

\* a line item that names no product (a custom item, a tip)
CustomLineItem == [LineItem(1) EXCEPT !.product_id = NoProductId]

LineItemLists ==
    {<<>>} \cup {<<LineItem(n)>> : n \in ProductNums}
           \cup {<<LineItem(1), LineItem(2)>>,
                 <<CustomLineItem, LineItem(2)>>,
                 <<LineItem(1), CustomLineItem>>}

\* order payloads; an absent note_attributes or line_items is the empty list
Orders ==
    [id : {1001}, shop_id : Shops, created_at : {OrderTime},
     note_attributes : SeqsUpTo(NoteAttrs, MaxAttrs),
     line_items : LineItemLists,
     financial_status : {"paid"}, fulfillment_status : {"none"},
     refunds : {<<>>}]

Clicks ==
    [track_id : {"trk9"}, shopId : Shops, productId : {NoProductId, 1},
     influencer_id : {"aff1"},
     clicked_at : {OrderTime - 24 * Hour, OrderTime - 24 * Hour + Minute}]

NoOrder ==
    [id |-> 0, shop_id |-> NoShop, created_at |-> 0,
     note_attributes |-> <<>>, line_items |-> <<>>,
     financial_status |-> "none", fulfillment_status |-> "none",
     refunds |-> <<>>]

\* one processOrder invocation.  pc is its suspension point; settled and
\* result are its promise; entered, posted and failed are the line items
\* recordSaleForLineItem was called for, those it sent to the backend and
\* those whose recording failed; saleData is the record in flight.
IdleTracker ==
    [pc |-> "start", trackingData |-> Null, clicksRead |-> FALSE,
     shopFound |-> FALSE, currency |-> "none", i |-> 0,
     entered |-> {}, posted |-> {}, failed |-> {},
     saleData |-> Null, settled |-> FALSE, result |-> FALSE]

\* no processOrder invocation yet
NoTracker == [IdleTracker EXCEPT !.pc = "idle"]

\* getRecentClicksForShop: "For now, return empty array"
getRecentClicksForShop(shopId, hours) == <<>>

\* position of the first note attribute called name, 0 when there is none
RECURSIVE attrIndex(_, _, _)
attrIndex(attrs, name, k) ==
    IF k > Len(attrs) THEN 0
    ELSE IF attrs[k].name = name THEN k
    ELSE attrIndex(attrs, name, k + 1)

\* items.some(item =>
\*     item.product_id.toString() === click.productId.toString()), from
\* position k: "true", "false", or "throw" when toString is called on null
RECURSIVE someItemMatches(_, _, _)
someItemMatches(items, click, k) ==
    IF k > Len(items) THEN "false"
    ELSE IF items[k].product_id = NoProductId \/ click.productId = NoProductId
    THEN "throw"
    ELSE IF items[k].product_id = click.productId THEN "true"
    ELSE someItemMatches(items, click, k + 1)

\* orderData.line_items?.some(...)
hasMatchingProduct(orderData, click) ==
    someItemMatches(orderData.line_items, click, 1)

\* Method 2: the loop over recentClicks, from position k
RECURSIVE matchClicks(_, _, _)
matchClicks(orderData, recentClicks, k) ==
    IF k > Len(recentClicks) THEN Null
    ELSE LET click == recentClicks[k]
             timeDiff == orderData.created_at - click.clicked_at
         IN IF timeDiff > 0 /\ timeDiff < (24 * 60 * 60 * 1000)
            THEN LET matching == hasMatchingProduct(orderData, click)
                 IN IF matching = "throw" THEN Thrown
                    ELSE IF matching = "true" \/ click.productId = NoProductId
                    THEN [track_id |-> click.track_id,
                          shop_id |-> click.shopId,
                          affiliate_id |-> click.influencer_id]
                    ELSE matchClicks(orderData, recentClicks, k + 1)
            ELSE matchClicks(orderData, recentClicks, k + 1)

\* Method 2 with the catch of findTrackingForOrder around it
heuristicTracking(orderData) ==
    LET found == matchClicks(orderData,
                             getRecentClicksForShop(orderData.shop_id, 48), 1)
    IN [data |-> IF found = Thrown THEN Null ELSE found, clicksRead |-> TRUE]

\* findTrackingForOrder looking for a note attribute called track_id
findTrackingWrongName(orderData) ==
    LET k == attrIndex(orderData.note_attributes, "track_id", 1)
    IN IF k # 0
       THEN [data |-> [track_id |-> orderData.note_attributes[k].value,
                       shop_id |-> orderData.shop_id],
             clicksRead |-> FALSE]
       ELSE heuristicTracking(orderData)

\* findTrackingForOrder: data is the value returned, clicksRead whether
\* getRecentClicksForShop was called on the way
findTrackingForOrder(orderData) ==
    LET k == attrIndex(orderData.note_attributes, "commission_track_id", 1)
    IN IF k # 0
       THEN [data |-> [track_id |-> orderData.note_attributes[k].value,
                       shop_id |-> orderData.shop_id],
             clicksRead |-> FALSE]
       ELSE heuristicTracking(orderData)

\* the continuation answering by the result of processOrderWebhook
AnsweredByResult(t) ==
    IF webhook.pc = "processing" /\ t.settled
    THEN [webhook EXCEPT !.pc = "responded",
                         !.status = IF t.result THEN 200 ELSE 500]
    ELSE webhook

\* the webhook handler's continuation once processOrderWebhook has settled
\* to t: res.status(200).json({ success: true })
Answered(t) ==
    IF webhook.pc = "processing" /\ t.settled
    THEN [webhook EXCEPT !.pc = "responded", !.status = 200]
    ELSE webhook

\* processOrder looks for the order's tracking data; with none it returns
\* false, else it asks the backend for the shop
FindTracking ==
    /\ tracker.pc = "start"
    /\ LET found == findTrackingForOrder(order)
       IN tracker' = [tracker EXCEPT
              !.pc = IF found.data = Null THEN "untracked" ELSE "tracked",
              !.trackingData = found.data,
              !.clicksRead = found.clicksRead,
              !.settled = (found.data = Null),
              !.result = FALSE]
    /\ webhook' = Answered(tracker')
    /\ UNCHANGED <<order, clicks, sales>>

\* orderData.shop_id || trackingData.shop_id
shopIdOf(orderData, trackingData) ==
    IF orderData.shop_id # NoShop THEN orderData.shop_id ELSE trackingData.shop_id

\* getShopFromBackend: the shop record of GET /shops/:id; null when the
\* backend has none or the request fails
getShopFromBackend(shopId, response) ==
    IF response = "shop"
    THEN [id |-> shopId, domain |-> shopId, accessToken |-> "token"]
    ELSE Null

\* getShopCurrency: the shop's currencyCode; 'USD' when there is no client
\* or the query fails
getShopCurrency(shopId, response) ==
    IF response = "fail" THEN "USD" ELSE response

\* saleData.trackingData as POSTed: JSON.stringify leaves out a property
\* whose value is undefined
saleTracking(trackingData) ==
    IF "affiliate_id" \in DOMAIN trackingData
    THEN [trackId |-> trackingData.track_id,
          affiliateId |-> trackingData.affiliate_id,
          referrer |-> Null]
    ELSE [trackId |-> trackingData.track_id, referrer |-> Null]

\* the product descriptor recordSaleForLineItem hands to the calculator
productDataOf(lineItem) ==
    [id |-> lineItem.product_id,
     title |-> Str(lineItem.title),
     productType |-> Str(lineItem.product_type),
     vendor |-> Str(lineItem.vendor),
     price |-> Num(parseFloat(lineItem.price)),
     tags |-> Arr(<<>>)]

\* the saleData literal, or the TypeError of lineItem.product_id.toString()
saleDataOf(orderData, lineItem, trackingData, currency, commission) ==
    IF lineItem.product_id = NoProductId THEN Thrown
    ELSE [shopId |-> trackingData.shop_id,
          orderId |-> orderData.id,
          productId |-> lineItem.product_id,
          productTitle |-> lineItem.title,
          quantity |-> lineItem.quantity,
          price |-> parseFloat(lineItem.price),
          totalAmount |-> parseFloat(lineItem.price) * lineItem.quantity,
          commissionRate |-> commission.rate,
          commissionValue |-> commission.value.num * lineItem.quantity,
          commissionCategory |-> commission.category,
          commissionSubcategory |-> commission.subcategory,
          isDefaultRate |-> commission.isDefault,
          currency |-> currency,
          orderDate |-> orderData.created_at,
          status |-> orderData.financial_status,
          trackingData |-> saleTracking(trackingData)]

\* recordSaleForLineItem up to apiClient.recordSale: the commission is
\* calculated, then the saleData built
buildSaleData(orderData, lineItem, trackingData, currency) ==
    saleDataOf(orderData, lineItem, trackingData, currency,
               calculateCommissionValue(productDataOf(lineItem), Null))

\* the catch of recordSaleForLineItem letting the error through
recordSaleCatchRethrows(error) == "throw"

\* catch (error) { console.error(...); return null }
recordSaleCatch(error) == "null"

\* the for loop of processOrder from line item k up to its next suspension
\* point: t is the invocation, the result the invocation at that point
RECURSIVE enterLineItems(_, _, _)
enterLineItems(orderData, t, k) ==
    IF k > Len(orderData.line_items)
    THEN [t EXCEPT !.pc = "done", !.i = k, !.saleData = Null,
                   !.settled = TRUE, !.result = TRUE]
    ELSE LET saleData == buildSaleData(orderData, orderData.line_items[k],
                                       t.trackingData, t.currency)
             entered == [t EXCEPT !.entered = @ \cup {k}, !.i = k]
         IN IF saleData = Thrown
            THEN IF recordSaleCatch("TypeError") = "throw"
                 THEN [entered EXCEPT !.pc = "failed", !.failed = @ \cup {k},
                                      !.saleData = Null,
                                      !.settled = TRUE, !.result = FALSE]
                 ELSE enterLineItems(orderData,
                                     [entered EXCEPT !.failed = @ \cup {k}], k + 1)
            ELSE [entered EXCEPT !.pc = "sale", !.posted = @ \cup {k},
                                 !.saleData = saleData]

\* getShopFromBackend settles: without shop data processOrder returns false
ShopResolved(response) ==
    /\ tracker.pc = "tracked"
    /\ LET shopData == getShopFromBackend(
                           shopIdOf(order, tracker.trackingData), response)
       IN tracker' = IF shopData = Null
                     THEN [tracker EXCEPT !.pc = "noshop",
                                          !.settled = TRUE, !.result = FALSE]
                     ELSE [tracker EXCEPT !.pc = "currency", !.shopFound = TRUE]
    /\ webhook' = Answered(tracker')
    /\ UNCHANGED <<order, clicks, sales>>

\* getShopCurrency settles; the line items are entered
CurrencyResolved(response) ==
    /\ tracker.pc = "currency"
    /\ tracker' = enterLineItems(order,
                      [tracker EXCEPT !.currency =
                           getShopCurrency(order.shop_id, response)], 1)
    /\ webhook' = Answered(tracker')
    /\ UNCHANGED <<order, clicks, sales>>

\* apiClient.recordSale of line item i settles: the backend stored the sale
\* (success), answered success: false (refused), or the request failed
SaleSettled(response) ==
    /\ tracker.pc = "sale"
    /\ LET k == tracker.i
           lost == [tracker EXCEPT !.failed = @ \cup {k}]
       IN /\ sales' = IF response = "success"
                      THEN Append(sales, tracker.saleData) ELSE sales
          /\ tracker' =
                IF response = "success" THEN enterLineItems(order, tracker, k + 1)
                ELSE IF response = "refused" THEN enterLineItems(order, lost, k + 1)
                ELSE IF recordSaleCatch("Error") = "throw"
                THEN [lost EXCEPT !.pc = "failed", !.saleData = Null,
                                  !.settled = TRUE, !.result = FALSE]
                ELSE enterLineItems(order, lost, k + 1)
    /\ webhook' = Answered(tracker')
    /\ UNCHANGED <<order, clicks>>

\* the steps of processOrder
ProcessOrder ==
    \/ FindTracking
    \/ \E r \in {"shop", "noshop", "throw"} : ShopResolved(r)
    \/ \E r \in {"KES", "fail"} : CurrencyResolved(r)
    \/ \E r \in {"success", "refused", "throw"} : SaleSettled(r)

\* ------------------------------------------------------ order webhooks
ShopDomainHeader == "x-shopify-shop-domain"

\* a shopId that is null (or the empty string): !shopId
NoShopId == ""

ShopDomains == {"shopA.myshopify.com", "shopB.myshopify.com", ".myshopify.com"}

\* request headers, as name/value pairs
HeaderLists ==
    {<<>>} \cup {<<[name |-> ShopDomainHeader, value |-> d]>> : d \in ShopDomains}

Refund(n) == [amount |-> [units |-> n, cents |-> 50]]

\* the order object Shopify posts; a body of null parses from "null"
WebhookPayloads ==
    [id : {1001}, created_at : {OrderTime},
     note_attributes : {<<>>, <<[name |-> "commission_track_id", value |-> "trk1"]>>},
     line_items : {<<>>, <<LineItem(1)>>, <<CustomLineItem, LineItem(2)>>},
     financial_status : {"pending", "paid", "refunded"},
     fulfillment_status : {"none", "fulfilled"},
     refunds : {<<>>, <<Refund(1), Refund(2)>>}]

Requests ==
    [topic : {"created", "paid", "updated"}, method : {"POST", "GET"},
     headers : HeaderLists, body : WebhookPayloads \cup {Null}]

NoRequest == [topic |-> "none", method |-> "none", headers |-> <<>>, body |-> Null]

\* one webhook delivery: the request, the handler's suspension point, the
\* status of its response, and the updateSaleStatus calls it has made
NoWebhook == [pc |-> "none", request |-> NoRequest, status |-> 0, updates |-> <<>>]

\* shopDomain ? shopDomain.replace('.myshopify.com', '') : null
shopIdOfRequest(req) ==
    LET k == attrIndex(req.headers, ShopDomainHeader, 1)
    IN IF k = 0 THEN NoShopId
       ELSE replace(req.headers[k].value, ".myshopify.com", "")

\* { ...webhookPayload, shop_id: shopId }
orderDataOf(req) ==
    [id |-> req.body.id, shop_id |-> shopIdOfRequest(req),
     created_at |-> req.body.created_at,
     note_attributes |-> req.body.note_attributes,
     line_items |-> req.body.line_items,
     financial_status |-> req.body.financial_status,
     fulfillment_status |-> req.body.fulfillment_status,
     refunds |-> req.body.refunds]

RECURSIVE totalRefunded(_, _)
\* refunds.reduce((sum, refund) => sum + parseFloat(refund.amount || 0), 0)
totalRefunded(refunds, k) ==
    IF k > Len(refunds) THEN 0
    ELSE parseFloat(refunds[k].amount) + totalRefunded(refunds, k + 1)

\* handleOrderStatusUpdate: the updateData sent to updateSaleStatus
updateDataOf(orderData, fromStatus, toStatus) ==
    IF Len(orderData.refunds) > 0
    THEN [shopId |-> orderData.shop_id, orderId |-> orderData.id,
          fromStatus |-> fromStatus, toStatus |-> toStatus, orderTotal |-> 0,
          refundAmount |-> totalRefunded(orderData.refunds, 1)]
    ELSE [shopId |-> orderData.shop_id, orderId |-> orderData.id,
          fromStatus |-> fromStatus, toStatus |-> toStatus, orderTotal |-> 0]

\* the test widened by triggerStatuses, which the handler declares and
\* never reads
significantChangeOrTrigger(body) ==
    \/ body.financial_status \in {"pending", "authorized", "partially_paid",
                                   "paid", "partially_refunded", "refunded"}
    \/ body.fulfillment_status = "fulfilled"

\* targetStatuses.includes(currentStatus) || fulfillmentStatus === 'fulfilled'
significantChange(body) ==
    \/ body.financial_status \in {"paid", "partially_refunded", "refunded"}
    \/ body.fulfillment_status = "fulfilled"

\* res.status(code).json(...)
Responded(code) == [webhook EXCEPT !.pc = "responded", !.status = code]

\* the created handler reads webhookPayload.id before it looks for the shop
readsBodyFirst(topic) == topic = "created"

\* a handler from its entry to its first suspension point
Receive ==
    /\ webhook.pc = "arrived"
    /\ LET req == webhook.request
           shopId == shopIdOfRequest(req)
       IN IF req.method # "POST"
          THEN /\ webhook' = Responded(405)
               /\ UNCHANGED <<order, tracker>>
          ELSE IF req.body = Null /\ (readsBodyFirst(req.topic) \/ shopId # NoShopId)
          THEN \* webhookPayload.id of null: the handler's catch answers
               /\ webhook' = Responded(500)
               /\ UNCHANGED <<order, tracker>>
          ELSE IF shopId = NoShopId
          THEN /\ webhook' = Responded(400)
               /\ UNCHANGED <<order, tracker>>
          ELSE IF req.topic \in {"created", "paid"}
          THEN /\ order' = orderDataOf(req)
               /\ tracker' = IdleTracker
               /\ webhook' = [webhook EXCEPT !.pc = "processing"]
          ELSE /\ order' = orderDataOf(req)
               /\ UNCHANGED tracker
               /\ IF significantChange(req.body)
                  THEN webhook' = [webhook EXCEPT
                          !.pc = "status",
                          !.updates = Append(@, updateDataOf(orderDataOf(req),
                                        "pending", req.body.financial_status))]
                  ELSE IF Len(req.body.refunds) > 0
                  THEN webhook' = [webhook EXCEPT
                          !.pc = "refund",
                          !.updates = Append(@, updateDataOf(orderDataOf(req),
                                        "paid", "refunded"))]
                  ELSE webhook' = Responded(200)
    /\ UNCHANGED <<clicks, sales>>

\* apiClient.updateSaleStatus settles (a rejection is caught and logged by
\* handleOrderStatusUpdate); the updated handler goes on
StatusSettled(ok) ==
    /\ webhook.pc \in {"status", "refund"}
    /\ IF webhook.pc = "status" /\ Len(order.refunds) > 0
       THEN webhook' = [webhook EXCEPT
               !.pc = "refund",
               !.updates = Append(@, updateDataOf(order, "paid", "refunded"))]
       ELSE webhook' = Responded(200)
    /\ UNCHANGED <<order, clicks, sales, tracker>>

\* ---------------------------------------------------------- specifications
SyncInit ==
    /\ syncInProgress = [s \in Shops |-> FALSE]
    /\ lastSyncTime = [s \in Shops |-> Undefined]
    /\ now = StartMs
    /\ catalog = [s \in Shops |-> IF s = "shopA" THEN AllProducts ELSE {}]
    /\ backend = [s \in Shops |-> EmptyBag]
    /\ calls = [c \in CallIds |-> IdleCall]
    /\ resync = NoResync

Init ==
    /\ SyncInit
    /\ order = NoOrder
    /\ clicks = <<>>
    /\ tracker = NoTracker
    /\ sales = <<>>
    /\ webhook = NoWebhook
    /\ commissionRates = SampleRates
    /\ calc = NoCalc

\* a catalog that needs a second write batch
BatchCatalog == {ShopifyProduct(n) : n \in 1..(batchSize + 1)}

\* the writes the backend may reject in a run over BatchCatalog: the first
\* of each batch
FailingWrites == {1, batchSize + 1}

InitBatch ==
    /\ syncInProgress = [s \in Shops |-> FALSE]
    /\ lastSyncTime = [s \in Shops |-> Undefined]
    /\ now = StartMs
    /\ catalog = [s \in Shops |-> IF s = "shopA" THEN BatchCatalog ELSE {}]
    /\ backend = [s \in Shops |-> EmptyBag]
    /\ calls = [c \in CallIds |-> IdleCall]
    /\ resync = NoResync
    /\ order = NoOrder
    /\ clicks = <<>>
    /\ tracker = NoTracker
    /\ sales = <<>>
    /\ webhook = NoWebhook
    /\ commissionRates = SampleRates
    /\ calc = NoCalc

\* an order webhook arrives, whatever clicks the backend holds
InitOrder ==
    /\ SyncInit
    /\ order \in Orders
    /\ clicks \in SeqsUpTo(Clicks, MaxClicks)
    /\ tracker = IdleTracker
    /\ sales = <<>>
    /\ webhook = NoWebhook
    /\ commissionRates = SampleRates
    /\ calc = NoCalc

\* a click of another smart link, inside the window, on product 1
EarlierClicks ==
    [track_id : {"trk8"}, shopId : Shops, productId : {1},
     influencer_id : {"aff2"}, clicked_at : {OrderTime - 24 * Hour + Minute}]

\* the orders, and those with a custom item ahead of product 1
ClickOrders ==
    Orders \cup {[o EXCEPT !.line_items = <<CustomLineItem, LineItem(1)>>] :
                    o \in Orders}

\* an order webhook arrives when the backend holds two clicks
InitClicks ==
    /\ SyncInit
    /\ order \in ClickOrders
    /\ clicks \in {<<a, b>> : a \in EarlierClicks, b \in Clicks}
    /\ tracker = IdleTracker
    /\ sales = <<>>
    /\ webhook = NoWebhook
    /\ commissionRates = SampleRates
    /\ calc = NoCalc

\* a webhook request arrives at one of the three order handlers
InitWebhook ==
    /\ SyncInit
    /\ order = NoOrder
    /\ clicks = <<>>
    /\ tracker = NoTracker
    /\ sales = <<>>
    /\ webhook \in [pc : {"arrived"}, request : Requests,
                    status : {0}, updates : {<<>>}]
    /\ commissionRates = SampleRates
    /\ calc = NoCalc

\* the calculator is called on a product, whatever the rate table
InitCalc ==
    /\ SyncInit
    /\ order = NoOrder
    /\ clicks = <<>>
    /\ tracker = NoTracker
    /\ sales = <<>>
    /\ webhook = NoWebhook
    /\ commissionRates \in RateTables
    /\ calc \in [pc : {"start"}, product : CalcProducts, price : CalcPrices,
                 result : {Null}]

Settle ==
    \/ \E c \in CallIds, cl \in BOOLEAN : ClientResolved(c, cl)
    \/ \E c \in CallIds, r \in {"data", "errors", "throw"} : QueryResolved(c, r)
    \/ \E c \in CallIds, k \in ProductNums, ok \in BOOLEAN : WriteSettled(c, k, ok)
    \/ \E c \in CallIds, ok \in BOOLEAN : ShortCircuitRead(c, ok)
    \/ \E c \in CallIds, ok \in BOOLEAN : ReadBack(c, ok)

\* concurrent invocations against fixed catalogs
Next ==
    \/ \E c \in CallIds, s \in Shops, f \in BOOLEAN :
          Invoke(c, s, f) /\ UNCHANGED <<resync, orderVars, calcVars>>
    \/ Settle /\ UNCHANGED <<resync, orderVars, calcVars>>
    \/ Tick /\ UNCHANGED <<resync, orderVars, calcVars>>

\* successive invocations against catalogs the merchant edits
NextCatalog ==
    \/ \E c \in CallIds, s \in Shops, f \in BOOLEAN :
          InvokeAlone(c, s, f) /\ UNCHANGED <<resync, orderVars, calcVars>>
    \/ Settle /\ UNCHANGED <<resync, orderVars, calcVars>>
    \/ Tick /\ UNCHANGED <<resync, orderVars, calcVars>>
    \/ \E s \in Shops, p \in AllProducts :
          CatalogRemove(s, p) /\ UNCHANGED <<resync, orderVars, calcVars>>

\* one pass over the catalog that needs two batches
NextBatch ==
    \/ \E f \in BOOLEAN :
          Invoke(1, "shopA", f) /\ UNCHANGED <<resync, orderVars, calcVars>>
    \/ \E cl \in BOOLEAN :
          ClientResolved(1, cl) /\ UNCHANGED <<resync, orderVars, calcVars>>
    \/ \E r \in {"data", "errors", "throw"} :
          QueryResolved(1, r) /\ UNCHANGED <<resync, orderVars, calcVars>>
    \/ \E k \in 1..(batchSize + 1), ok \in BOOLEAN :
          /\ ok \/ k \in FailingWrites
          /\ WriteSettled(1, k, ok)
          /\ UNCHANGED <<resync, orderVars, calcVars>>
    \/ \E ok \in BOOLEAN :
          ReadBack(1, ok) /\ UNCHANGED <<resync, orderVars, calcVars>>

\* a resyncProduct call beside one syncAndFetchProducts call
NextResync ==
    \/ \E s \in Shops, f \in BOOLEAN :
          Invoke(1, s, f) /\ UNCHANGED <<resync, orderVars, calcVars>>
    \/ \E cl \in BOOLEAN :
          ClientResolved(1, cl) /\ UNCHANGED <<resync, orderVars, calcVars>>
    \/ \E r \in {"data", "errors", "throw"} :
          QueryResolved(1, r) /\ UNCHANGED <<resync, orderVars, calcVars>>
    \/ \E k \in ProductNums, ok \in BOOLEAN :
          WriteSettled(1, k, ok) /\ UNCHANGED <<resync, orderVars, calcVars>>
    \/ \E ok \in BOOLEAN :
          ReadBack(1, ok) /\ UNCHANGED <<resync, orderVars, calcVars>>
    \/ \E s \in Shops, n \in ProductNums :
          ResyncInvoke(s, n) /\ UNCHANGED <<orderVars, calcVars>>
    \/ \E cl \in BOOLEAN : ResyncClient(cl) /\ UNCHANGED <<orderVars, calcVars>>
    \/ \E r \in {"data", "errors", "throw"} :
          ResyncQuery(r) /\ UNCHANGED <<orderVars, calcVars>>
    \/ \E ok \in BOOLEAN : ResyncWrite(ok) /\ UNCHANGED <<orderVars, calcVars>>
    \/ \E ok \in BOOLEAN : ResyncRead(ok) /\ UNCHANGED <<orderVars, calcVars>>

\* the tracker at work on one order
NextOrder ==
    ProcessOrder /\ UNCHANGED <<syncVars, calcVars>>

\* a handler serving one webhook delivery
NextWebhook ==
    \/ Receive /\ UNCHANGED <<syncVars, calcVars>>
    \/ ProcessOrder /\ UNCHANGED <<syncVars, calcVars>>
    \/ \E ok \in BOOLEAN : StatusSettled(ok) /\ UNCHANGED <<syncVars, calcVars>>

\* the calculator at work on one product
NextCalc ==
    \/ CalculateRate /\ UNCHANGED <<syncVars, orderVars>>
    \/ CalculateValue /\ UNCHANGED <<syncVars, orderVars>>

vars == <<syncInProgress, lastSyncTime, now, catalog, backend, calls, resync,
          order, clicks, tracker, sales, webhook, commissionRates, calc>>

Spec == Init /\ [][Next]_vars

SpecCatalog == Init /\ [][NextCatalog]_vars

SpecBatch == InitBatch /\ [][NextBatch]_vars

SpecResync == Init /\ [][NextResync]_vars

SpecOrder == InitOrder /\ [][NextOrder]_vars

SpecClicks == InitClicks /\ [][NextOrder]_vars

SpecWebhook == InitWebhook /\ [][NextWebhook]_vars

SpecCalc == InitCalc /\ [][NextCalc]_vars

TypeOK ==
    /\ syncInProgress \in [Shops -> BOOLEAN]
    /\ \A s \in Shops : lastSyncTime[s] = Undefined \/ lastSyncTime[s] >= StartMs
    /\ \A c \in CallIds : calls[c].pc \in {"idle", "scread", "client", "query",
                                           "writing", "readback", "done"}
    /\ \A s \in Shops : \A r \in BagToSet(backend[s]) : CopiesIn(r, backend[s]) = 1
    /\ tracker.pc \in {"idle", "start", "tracked", "untracked", "noshop",
                       "currency", "sale", "done", "failed"}
    /\ tracker.settled <=> tracker.pc \in {"untracked", "noshop", "done", "failed"}
    /\ webhook.pc \in {"none", "arrived", "processing", "status", "refund",
                       "responded"}
    /\ webhook.status \in {0, 200, 400, 405, 500}
    /\ calc.pc \in {"none", "start", "rate", "value", "threw"}

\* ================================================================ claims
SeqRange(q) == {q[j] : j \in 1..Len(q)}

\* call c starts in this step, not forcing, on shop s
StartsUnforced(c) ==
    calls[c].pc = "idle" /\ calls'[c].pc # "idle" /\ ~calls'[c].forceRefresh

\* call c settles in this step
Settles(c) == Running(c) /\ calls'[c].pc = "done"

\* no forced call on the shop started while another call on it was running
NoForcedOverlap(shopId) ==
    \A d \in CallIds :
        calls[d].shopId = shopId /\ calls[d].forceRefresh => calls[d].running = {}

\* C1: for every shop and every interleaving of forced and non-forced
\* syncAndFetchProducts calls, at most one sync pass is in flight for the
\* shop at any time.
C1_AtMostOnePassPerShop ==
    \A s \in Shops : Cardinality(PassesOn(s)) <= 1

\* C2: a non-forced call that arrives while a sync pass of the shop is in
\* flight (the pass and the non-forced calls being all there is: no forced
\* call overlaps another call) is answered from a backend read and starts no
\* Shopify fetch, so the pass in flight stays the only one, and the call
\* changes neither the backend nor the sync state.
C2_LaterCallsReadBackend ==
    [][\A c \in CallIds :
        /\ \A s \in Shops :
            (/\ StartsUnforced(c) /\ calls'[c].shopId = s
             /\ PassesOn(s) # {}
             /\ NoForcedOverlap(s))
            => /\ calls'[c].pc = "scread"
               /\ calls'[c].path = "guard"
               /\ (PassesOn(s))' = PassesOn(s)
               /\ Cardinality(PassesOn(s)) = 1
        /\ (calls[c].path = "guard" /\ Settles(c))
           => /\ calls'[c].outcome = "returned"
              /\ calls'[c].shopifyProducts = <<>>
              /\ ~calls'[c].readFailed => calls'[c].value = backend[calls[c].shopId]
              /\ backend' = backend
      ]_vars

C2_Witness ==
    \E p, c \in CallIds :
        /\ p < c /\ calls[p].shopId = calls[c].shopId
        /\ InPass(p) /\ calls[p].running = {}
        /\ ~calls[c].forceRefresh /\ calls[c].path = "guard"
        /\ calls[c].pc = "done" /\ calls[c].outcome = "returned"

\* C3: a call that set the shop's inProgress flag clears it again whatever
\* the outcome (a pass when it settles, returned or rejected; a staleness
\* short-circuit before it suspends on its backend read), and whenever no
\* call of a shop is running the shop's flag is false.
C3_FlagClearedOnEveryOutcome ==
    [][/\ \A c \in CallIds :
            /\ (calls[c].path = "pass" /\ Settles(c))
                  => ~syncInProgress'[calls[c].shopId]
            /\ (calls[c].pc = "idle" /\ calls'[c].path = "stale")
                  => ~syncInProgress'[calls'[c].shopId]
       /\ \A s \in Shops : (RunningOn(s))' = {} => ~syncInProgress'[s]
      ]_vars

C3_Witness ==
    \E c, d \in CallIds :
        /\ calls[c].shopId = calls[d].shopId
        /\ calls[c].pc = "done" /\ calls[c].outcome = "rejected"
        /\ calls[d].pc = "done" /\ calls[d].path = "pass"
        /\ calls[d].outcome = "returned"
        /\ ~syncInProgress[calls[c].shopId]

C5_PartialFailureIsolated ==
    \A c \in CallIds :
        (calls[c].pc \in {"readback", "done"} /\ calls[c].shopifyProducts # <<>>) =>
            LET fetched == calls[c].shopifyProducts
                r == calls[c].results
            IN /\ calls[c].okKs \cup calls[c].failKs = 1..Len(fetched)
               /\ r.successful + r.failed = Len(fetched)
               /\ r.successful = Cardinality(calls[c].okKs)
               /\ r.failed = Cardinality(calls[c].failKs)
               /\ Len(r.errors) = r.failed
               /\ {e.productId : e \in SeqRange(r.errors)}
                     = {fetched[k].id : k \in calls[c].failKs}
               /\ calls[c].pc = "done" =>
                    /\ calls[c].outcome = "returned"
                    /\ ~calls[c].readFailed =>
                         \A k \in calls[c].okKs :
                            fetched[k].id.tail \in ProductIdsOf(calls[c].value)

C5_Witness ==
    \E c \in CallIds :
        /\ calls[c].pc = "done" /\ ~calls[c].readFailed
        /\ calls[c].okKs # {} /\ calls[c].failKs # {}
        /\ calls[c].results.successful = 1 /\ calls[c].results.failed = 1

\* C6: when the Shopify client cannot be created or the response carries a
\* GraphQL errors envelope, the call rejects with that error, has issued no
\* product write, and leaves lastSyncTimestamp (and the backend) unchanged.
C6_FatalFetchErrorPropagates ==
    [][\A c \in CallIds :
        (calls[c].fault = "none" /\ calls'[c].fault \in {"noclient", "errors"}) =>
            /\ calls'[c].pc = "done"
            /\ calls'[c].outcome = "rejected"
            /\ calls'[c].error = (IF calls'[c].fault = "noclient"
                                  THEN "Could not create Shopify client"
                                  ELSE "Shopify GraphQL errors")
            /\ calls'[c].okKs \cup calls'[c].failKs \cup calls'[c].pending = {}
            /\ lastSyncTime' = lastSyncTime
            /\ backend' = backend
      ]_vars

C6_Witness ==
    \E c, d \in CallIds :
        /\ calls[c].fault = "noclient" /\ calls[c].outcome = "rejected"
        /\ calls[d].fault = "errors" /\ calls[d].outcome = "rejected"

\* C7: when the backend product read fails during syncAndFetchProducts, in
\* the read-back of a pass or in a short-circuit read, the call rejects
\* instead of returning a product list.
C7_ReadFailurePropagates ==
    \A c \in CallIds : calls[c].readFailed => calls[c].outcome = "rejected"

CleanForcedPass(c) ==
    /\ calls[c].pc = "done" /\ calls[c].path = "pass"
    /\ calls[c].forceRefresh /\ calls[c].outcome = "returned"
    /\ calls[c].shopifyProducts # <<>> /\ calls[c].failKs = {}

\* d is the invocation on the shop that follows c
Successive(c, d) ==
    /\ c < d /\ calls[c].shopId = calls[d].shopId
    /\ \A e \in CallIds : (c < e /\ e < d) => calls[e].shopId # calls[c].shopId

C9_BackendMirrorsCatalog ==
    \A c \in CallIds :
        (/\ calls[c].pc = "done" /\ calls[c].path = "pass"
         /\ calls[c].outcome = "returned" /\ calls[c].shopifyProducts # <<>>
         /\ calls[c].failKs = {} /\ ~calls[c].readFailed)
        => ProductIdsOf(calls[c].value)
              = {p.id.tail : p \in SeqRange(calls[c].shopifyProducts)}

TrackAttrValues(orderData) ==
    {a.value : a \in {x \in SeqRange(orderData.note_attributes) :
                         x.name = "commission_track_id"}}

\* C10: for an order that carries a note attribute named
\* commission_track_id, findTrackingForOrder returns that track id (with the
\* order's shop) and does not read the recent clicks, whatever clicks exist.
C10_ExplicitTrackIdWins ==
    (tracker.pc # "start" /\ TrackAttrValues(order) # {}) =>
        /\ tracker.trackingData # Null
        /\ tracker.trackingData.track_id \in TrackAttrValues(order)
        /\ tracker.trackingData.shop_id = order.shop_id
        /\ ~tracker.clicksRead

C10_Witness ==
    /\ tracker.pc = "tracked"
    /\ Len(order.note_attributes) = 2
    /\ order.note_attributes[1].name = "gift_note"
    /\ order.note_attributes[2].name = "commission_track_id"
    /\ tracker.trackingData.track_id = order.note_attributes[2].value
    /\ \E k \in 1..Len(clicks) :
          /\ clicks[k].shopId = order.shop_id
          /\ order.created_at - clicks[k].clicked_at < 24 * Hour
          /\ hasMatchingProduct(order, clicks[k]) = "true"

\* the click names a product that is among the order's line items
ClickNamesLineItem(orderData, click) ==
    /\ click.productId # NoProductId
    /\ \E k \in 1..Len(orderData.line_items) :
          orderData.line_items[k].product_id = click.productId

InWindow(orderData, click) ==
    /\ orderData.created_at - click.clicked_at > 0
    /\ orderData.created_at - click.clicked_at < 24 * Hour

\* C11: for an order without an explicit tracking attribute and a recorded
\* click of the same shop whose product is among the order's line items,
\* processing the order attributes it to that click exactly when the click
\* precedes the order by more than 0 and less than 24 hours.
C11_ClickInWindowAttributes ==
    (tracker.pc # "start" /\ TrackAttrValues(order) = {}) =>
        \A k \in 1..Len(clicks) :
            (clicks[k].shopId = order.shop_id /\ ClickNamesLineItem(order, clicks[k]))
            => ((/\ tracker.trackingData # Null
                 /\ tracker.trackingData.track_id = clicks[k].track_id)
                <=> InWindow(order, clicks[k]))

\* C12: in the heuristic matching loop a click with no product id that
\* precedes the order by more than 0 and less than 24 hours is returned as
\* the order's attribution, also when the order has line items.
C12_StoreWideClickQualifies ==
    \A k \in 1..Len(clicks) :
        (/\ tracker.pc # "start"
         /\ clicks[k].productId = NoProductId /\ InWindow(order, clicks[k]))
        => matchClicks(order, clicks, k)
              = [track_id |-> clicks[k].track_id,
                 shop_id |-> clicks[k].shopId,
                 affiliate_id |-> clicks[k].influencer_id]

\* C13: processOrder returns true exactly when an attribution was found for
\* the order, and false exactly when the order is unattributed.
C13_TrueIffAttributed ==
    tracker.settled => (tracker.result <=> tracker.trackingData # Null)

\* the line items recordSaleForLineItem can build a sale for
WellFormedItems(orderData) ==
    {k \in 1..Len(orderData.line_items) :
        orderData.line_items[k].product_id # NoProductId}

\* C14: once an attributed order whose shop was found has been processed,
\* recordSaleForLineItem was entered for every line item and recordSale was
\* attempted for every line item a sale can be built for, whichever of them
\* failed (malformed, refused or rejected); while it is being processed, every
\* line item before the current one was entered.
C14_LineItemFailuresIsolated ==
    /\ (tracker.settled /\ tracker.shopFound) =>
          /\ tracker.entered = 1..Len(order.line_items)
          /\ tracker.posted = WellFormedItems(order)
          /\ tracker.result
    /\ tracker.pc = "sale" =>
          /\ tracker.entered = 1..tracker.i
          /\ tracker.posted = {k \in WellFormedItems(order) : k <= tracker.i}

C14_Witness ==
    /\ tracker.pc = "done" /\ Len(order.line_items) = 2
    /\ 1 \in tracker.failed /\ 1 \in tracker.posted
    /\ 2 \in tracker.posted /\ 2 \notin tracker.failed
    /\ Len(sales) = 1 /\ sales[1].productId = 2

\* C15: every sale record the backend stored carries the track id and the
\* affiliate id of the attribution.
C15_SaleCarriesTrackAndAffiliate ==
    \A k \in 1..Len(sales) :
        /\ "trackId" \in DOMAIN sales[k].trackingData
        /\ "affiliateId" \in DOMAIN sales[k].trackingData

\* the request's shop domain header names a shop
NamesShop(req) ==
    \E k \in 1..Len(req.headers) :
        /\ req.headers[k].name = ShopDomainHeader
        /\ req.headers[k].value \in {"shopA.myshopify.com", "shopB.myshopify.com"}

\* C16: a POST order webhook (created, paid, updated) with an object payload
\* whose shop domain header names a shop is answered 200 and never anything
\* else, whatever the attribution, the shop lookup and the backend calls
\* did; one that names no shop is answered 400 before anything is processed.
C16_WebhookAcknowledged ==
    LET req == webhook.request
    IN (req.method = "POST" /\ req.body # Null /\ webhook.pc # "arrived") =>
          /\ NamesShop(req) =>
                /\ webhook.status \in {0, 200}
                /\ webhook.pc = "responded" => webhook.status = 200
                /\ (tracker.settled \/ (req.topic = "updated" /\ webhook.pc \notin {"status", "refund"}))
                      => webhook.pc = "responded"
          /\ ~NamesShop(req) =>
                /\ webhook.pc = "responded" /\ webhook.status = 400
                /\ order = NoOrder /\ tracker = NoTracker
                /\ sales = <<>> /\ webhook.updates = <<>>

C16_Witness ==
    /\ webhook.request.topic = "paid" /\ webhook.pc = "responded"
    /\ webhook.status = 200
    /\ tracker.pc = "done" /\ tracker.failed = {1, 2} /\ sales = <<>>

\* ------------------------------------------- commission calculator claims
\* the calculator has answered for calc.product
Resolved == calc.pc \in {"rate", "value"}

\* the product is one whose fields matchProductCategory can normalise
Matchable ==
    /\ calc.product # Null
    /\ ~lowerTrim(field(calc.product, "productType")).thrown
    /\ ~lowerTags(field(calc.product, "tags")).thrown
    /\ ~lowerTrim(field(calc.product, "title")).thrown
    /\ ~lowerTrim(field(calc.product, "vendor")).thrown

labelOf == lowerTrim(field(calc.product, "productType")).str
tagsOf == lowerTags(field(calc.product, "tags")).strs
titleOf == lowerTrim(field(calc.product, "title")).str
vendorOf == lowerTrim(field(calc.product, "vendor")).str

Pairs == 1..Len(commissionRates)

\* entry k of the table satisfies the label, tag, title or vendor rule
LabelAt(k) ==
    isExactMatch(labelOf, commissionRates[k].category, commissionRates[k].subcategory)
TagAt(k) ==
    isTagMatch(tagsOf, commissionRates[k].category, commissionRates[k].subcategory)
TitleAt(k) ==
    isTitleMatch(titleOf, commissionRates[k].category, commissionRates[k].subcategory)
VendorAt(k) ==
    isVendorMatch(vendorOf, commissionRates[k].category, commissionRates[k].subcategory)
ExactAt(k) == LabelAt(k) \/ TagAt(k) \/ TitleAt(k) \/ VendorAt(k)

\* entry k satisfies the fuzzy keyword rule
FuzzyAt(k) ==
    isFuzzyMatch(labelOf, titleOf, tagsOf,
                 commissionRates[k].category, commissionRates[k].subcategory)

\* the answer is entry k of the table
Returned(k) ==
    /\ calc.result.rate = commissionRates[k].rate
    /\ calc.result.category = commissionRates[k].category
    /\ calc.result.subcategory = commissionRates[k].subcategory
    /\ calc.result.isDefault = FALSE

\* the answer is the default for a product nothing matched
Uncategorized ==
    /\ calc.result.rate = defaultRate
    /\ calc.result.category = "Other"
    /\ calc.result.subcategory = "Uncategorized"
    /\ calc.result.isDefault = TRUE

\* C17 as stated: the first entry in table order that satisfies any of the
\* five rules is the one returned
C17_FirstPairOfAnyRule ==
    (Resolved /\ Matchable) =>
        \A k \in Pairs :
            ((ExactAt(k) \/ FuzzyAt(k))
                /\ \A j \in 1..(k - 1) : ~(ExactAt(j) \/ FuzzyAt(j)))
            => Returned(k)

\* C17 amended: the first entry that satisfies the label, tag, title or
\* vendor rule is returned; only when no entry satisfies one of these is
\* the first entry that satisfies the fuzzy keyword rule returned
C17_FirstExactThenFirstFuzzy ==
    (Resolved /\ Matchable) =>
        \A k \in Pairs :
            /\ (ExactAt(k) /\ \A j \in 1..(k - 1) : ~ExactAt(j)) => Returned(k)
            /\ ((\A j \in Pairs : ~ExactAt(j))
                   /\ FuzzyAt(k) /\ \A j \in 1..(k - 1) : ~FuzzyAt(j))
               => Returned(k)

\* C17 witness: an earlier entry satisfies only the fuzzy rule, a later one
\* the tag rule, and the later one is returned
C17_Witness ==
    /\ Resolved /\ Matchable
    /\ \E j, k \in Pairs :
          j < k /\ FuzzyAt(j) /\ ~ExactAt(j) /\ TagAt(k) /\ Returned(k)

\* the fuzzy rule holds for entry k through the title and through nothing
\* else
FuzzyByTitleOnly(k) ==
    /\ isFuzzyMatch("", titleOf, <<>>,
                    commissionRates[k].category, commissionRates[k].subcategory)
    /\ ~isFuzzyMatch(labelOf, "", tagsOf,
                     commissionRates[k].category, commissionRates[k].subcategory)

\* C18: a product that matches entry A through a tag only and entry B
\* through a fuzzy keyword of its title only, and no other entry, gets A's
\* rate, category and subcategory when A comes before B in the table
C18_TagBeforeFuzzyTitle ==
    Resolved /\ Matchable =>
        \A a, b \in Pairs :
            (/\ a < b
             /\ TagAt(a) /\ ~LabelAt(a) /\ ~TitleAt(a) /\ ~VendorAt(a) /\ ~FuzzyAt(a)
             /\ FuzzyByTitleOnly(b) /\ ~ExactAt(b)
             /\ \A k \in Pairs \ {a, b} : ~ExactAt(k) /\ ~FuzzyAt(k))
            => Returned(a)

\* C18 witness: the ambiguous product has been resolved against a table
\* that has A before B
C18_Witness ==
    /\ Resolved /\ Matchable
    /\ \E a, b \in Pairs :
          /\ a < b
          /\ TagAt(a) /\ ~LabelAt(a) /\ ~TitleAt(a) /\ ~VendorAt(a) /\ ~FuzzyAt(a)
          /\ FuzzyByTitleOnly(b) /\ ~ExactAt(b)
          /\ Returned(a)

\* the label, tags, title and vendor of the product are empty or absent
AllEmpty ==
    /\ Matchable
    /\ labelOf = "" /\ tagsOf = <<>> /\ titleOf = "" /\ vendorOf = ""

\* C19: a product with empty label, tags, title and vendor resolves to rate
\* 15, category "Other", subcategory "Uncategorized", isDefault true;
\* isDefault is true exactly when no entry of the table matched, and the
\* rate is then 15
C19_DefaultWhenNothingMatches ==
    Resolved =>
        /\ AllEmpty => Uncategorized
        /\ Matchable =>
              (calc.result.isDefault
                  <=> \A k \in Pairs : ~ExactAt(k) /\ ~FuzzyAt(k))
        /\ calc.result.isDefault => calc.result.rate = defaultRate

\* C19 witness: the empty product has been resolved against a table that
\* has entries
C19_Witness ==
    /\ Resolved
    /\ Len(commissionRates) > 0
    /\ AllEmpty
    /\ Uncategorized

\* C20: neither function throws; a malformed product gets the default rate
\* with subcategory "Error"
C20_NeverThrows ==
    /\ calc.pc # "threw"
    /\ (Resolved /\ ~Matchable) =>
          /\ calc.result.rate = defaultRate
          /\ calc.result.isDefault = TRUE
          /\ calc.result.subcategory = "Error"

\* the price input the calculator is to take: the price argument when one
\* is given, else the product's price field, else the price of its first
\* variant, else none
firstVariantOf(product) ==
    IF field(product, "variants") # Null
          /\ field(product, "variants").type = "array"
          /\ Len(field(product, "variants").items) > 0
    THEN field(product, "variants").items[1]
    ELSE Null

PriceInput ==
    IF calc.price # Null THEN calc.price
    ELSE IF field(calc.product, "price") # Null THEN field(calc.product, "price")
    ELSE field(firstVariantOf(calc.product), "price")

Numeric(v) ==
    \/ v.type = "number"
    \/ v.type = "string" /\ parseFloatOfString(v.str) # NaN

ExpectedPrice ==
    IF PriceInput = Null THEN Num(0)
    ELSE IF ~Numeric(PriceInput) THEN Num(0)
    ELSE parseFloatOf(PriceInput)

\* C21: calculateCommissionValue takes the explicit price when one is
\* given, else the first variant's price, else 0; a missing or non-numeric
\* price input gives price 0 and commission value 0, and no error is raised
C21_PriceChosenOrZero ==
    /\ calc.pc # "threw"
    /\ calc.pc = "value" =>
          /\ calc.result.price = ExpectedPrice
          /\ ExpectedPrice = Num(0) => calc.result.value = Num(0)

\* C22: for every price and rate the commission value is price x rate /
\* 100 rounded half up to two decimal places
C22_ValueRoundedHalfUp ==
    (calc.pc = "value" /\ calc.result.price.type = "number") =>
        calc.result.value.num
            = (calc.result.price.num * calc.result.rate + 50) \div 100

\* ------------------------------------------------- sync state claims
\* call c is invoked in this step
Starts(c) == calls[c].pc = "idle" /\ calls'[c].pc # "idle"

\* the read-back of call c settles in this step
ReadsBack(c) == calls[c].pc = "readback" /\ calls'[c].pc = "done"

\* C23: a shop's lastSyncTimestamp changes only when the read-back of a
\* pass that wrote settles, and is set then even if writes failed; it is
\* left alone by a call the in-progress guard or the staleness guard
\* answers, by a pass whose fetch returns no product and by a pass that
\* fails fatally
C23_LastSyncOnlyAfterReadBack ==
    [][/\ \A s \in Shops :
            lastSyncTime'[s] # lastSyncTime[s] =>
                \E c \in CallIds :
                    /\ ReadsBack(c) /\ calls[c].shopId = s
                    /\ calls[c].okKs \cup calls[c].failKs # {}
       /\ \A c \in CallIds :
            /\ ReadsBack(c) => lastSyncTime'[calls[c].shopId] = now
            /\ (Starts(c) /\ calls'[c].path \in {"guard", "stale"})
                  => lastSyncTime' = lastSyncTime
            /\ (calls[c].path \in {"guard", "stale"} /\ Settles(c))
                  => lastSyncTime' = lastSyncTime
            /\ (Settles(c) /\ calls'[c].shopifyProducts = <<>>)
                  => lastSyncTime' = lastSyncTime
            /\ (Settles(c) /\ calls'[c].outcome = "rejected")
                  => lastSyncTime' = lastSyncTime
      ]_vars

\* C23 witness: a pass all of whose writes failed has set the timestamp
C23_Witness ==
    \E c \in CallIds :
        /\ calls[c].pc = "done" /\ calls[c].path = "pass"
        /\ calls[c].outcome = "returned"
        /\ calls[c].okKs = {} /\ calls[c].failKs # {}
        /\ calls[c].running = {}
        /\ lastSyncTime[calls[c].shopId] = now

\* C24: when the Shopify fetch returns no product the call returns an
\* empty list, raises no error, issues no backend product write, and the
\* shop's inProgress flag is cleared
C24_EmptyFetchReturnsEmpty ==
    [][\A c \in CallIds :
        (/\ calls[c].pc = "query" /\ calls'[c].pc # "query"
         /\ calls'[c].fault = "none"
         /\ catalog[calls[c].shopId] = {})
        => /\ calls'[c].pc = "done"
           /\ calls'[c].outcome = "returned"
           /\ calls'[c].value = EmptyBag
           /\ calls'[c].okKs \cup calls'[c].failKs \cup calls'[c].pending = {}
           /\ backend' = backend
           /\ ~syncInProgress'[calls[c].shopId]
      ]_vars

\* C24 witness: a pass on the shop with the empty catalog has returned
C24_Witness ==
    \E c \in CallIds :
        /\ calls[c].pc = "done" /\ calls[c].path = "pass"
        /\ calls[c].outcome = "returned" /\ calls[c].fault = "none"
        /\ catalog[calls[c].shopId] = {}
        /\ calls[c].value = EmptyBag
        /\ ~syncInProgress[calls[c].shopId]

\* C28: getSyncStatus(shop).inProgress is true whenever a sync pass of the
\* shop is in flight, for any interleaving of forced and non-forced calls
C28_InProgressWhilePassInFlight ==
    \A s \in Shops : PassesOn(s) # {} => getSyncStatus(s).inProgress

\* C29: a non-forced call made while the shop's flag is set is answered by
\* the in-progress guard and leaves the flag and lastSyncTimestamp as they
\* are, when it starts and when it settles
C29_GuardedCallLeavesSyncState ==
    [][\A c \in CallIds :
        /\ (/\ Starts(c) /\ ~calls'[c].forceRefresh
            /\ syncInProgress[calls'[c].shopId])
           => /\ calls'[c].path = "guard"
              /\ syncInProgress' = syncInProgress
              /\ lastSyncTime' = lastSyncTime
        /\ (calls[c].path = "guard" /\ Settles(c))
           => /\ syncInProgress' = syncInProgress
              /\ lastSyncTime' = lastSyncTime
      ]_vars

\* C29 witness: a guarded call has settled while the pass that holds the
\* flag is still in flight
C29_Witness ==
    \E p, c \in CallIds :
        /\ calls[p].shopId = calls[c].shopId /\ InPass(p)
        /\ calls[c].path = "guard" /\ calls[c].pc = "done"
        /\ syncInProgress[calls[c].shopId]

\* the batch position k falls in, counted from 0
BatchNo(k) == (k - 1) \div 10

\* C25: within a pass the writes go out in consecutive batches of at most
\* 10; no write of a later batch is issued before every write of the
\* batches before it has settled, so at most 10 writes of the pass are in
\* flight at any time
C25_WritesInBatchesOfTen ==
    \A c \in CallIds :
        calls[c].pc = "writing" =>
            LET n == Len(calls[c].shopifyProducts)
                settled == calls[c].okKs \cup calls[c].failKs
                issued == calls[c].pending \cup settled
            IN /\ Cardinality(calls[c].pending) <= 10
               /\ calls[c].pending \cap settled = {}
               /\ \A k \in issued : \A j \in 1..n :
                     BatchNo(j) < BatchNo(k) => j \in settled
               /\ \A k \in issued : \A j \in 1..n :
                     BatchNo(j) = BatchNo(k) => j \in issued

\* C25 witness: the second batch is in flight after a first batch of ten
\* in which a write failed
C25_Witness ==
    \E c \in CallIds :
        /\ calls[c].pc = "writing"
        /\ Len(calls[c].shopifyProducts) > 10
        /\ calls[c].pending = {11}
        /\ calls[c].failKs = {1}
        /\ calls[c].okKs = 2..10

\* C30: resyncProduct neither reads nor changes the sync state: it starts
\* whatever the shop's inProgress flag says, and no step of it, whether it
\* ends in a value or in an error, changes inProgress or lastSyncTimestamp
\* of any shop
C30_ResyncLeavesSyncState ==
    [][/\ resync' # resync =>
            /\ syncInProgress' = syncInProgress
            /\ lastSyncTime' = lastSyncTime
       /\ (resync.pc = "idle" /\ resync'.pc # "idle") => resync'.pc = "client"
      ]_vars

\* C30 witness: a resyncProduct call was made and has thrown while a pass
\* of the same shop is in flight, the flag still set
C30_Witness ==
    /\ resync.pc = "done" /\ resync.outcome = "rejected"
    /\ InPass(1) /\ calls[1].shopId = resync.shopId
    /\ syncInProgress[resync.shopId]

\* ------------------------------------------------- status change claims
RECURSIVE AmountsUpTo(_, _)
\* the amounts of the first k refunds, added up
AmountsUpTo(refunds, k) ==
    IF k = 0 THEN 0
    ELSE AmountsUpTo(refunds, k - 1)
            + refunds[k].amount.units * 100 + refunds[k].amount.cents

\* C27: an order-updated delivery never runs attribution and never records
\* a sale; it issues updateSaleStatus only, and only when the financial
\* status is paid, partially_refunded or refunded, the fulfillment status is
\* fulfilled, or the order has refunds; each update carries the summed
\* refund amount exactly when the order has refunds; and a rejected
\* updateSaleStatus never surfaces: the delivery is still answered 200
C27_StatusChangeOnlyUpdates ==
    LET req == webhook.request
        body == req.body
    IN (req.topic = "updated" /\ webhook.pc # "arrived") =>
          /\ tracker = NoTracker /\ sales = <<>>
          /\ webhook.updates # <<>> =>
                /\ body # Null
                /\ \/ body.financial_status
                          \in {"paid", "partially_refunded", "refunded"}
                   \/ body.fulfillment_status = "fulfilled"
                   \/ Len(body.refunds) > 0
                /\ \A k \in 1..Len(webhook.updates) :
                      LET u == webhook.updates[k]
                      IN /\ "refundAmount" \in DOMAIN u <=> Len(body.refunds) > 0
                         /\ "refundAmount" \in DOMAIN u =>
                               u.refundAmount
                                  = AmountsUpTo(body.refunds, Len(body.refunds))
                /\ webhook.pc = "responded" => webhook.status = 200

\* C27 witness: a refunded order with two refunds was delivered to the
\* updated handler, which made both of its status updates, each with the
\* refund total, and answered
C27_Witness ==
    /\ webhook.request.topic = "updated" /\ webhook.pc = "responded"
    /\ webhook.request.body # Null
    /\ webhook.request.body.financial_status = "refunded"
    /\ Len(webhook.updates) = 2
    /\ webhook.updates[2].toStatus = "refunded"
    /\ webhook.updates[2].refundAmount = 400
    /\ tracker = NoTracker /\ sales = <<>>

\* ------------------------------------------------ click matching claims
\* positions of the clicks of the order's shop that are inside the window
\* and name a product among the order's line items
QualifyingClicks ==
    {k \in 1..Len(clicks) :
        /\ clicks[k].shopId = order.shop_id
        /\ InWindow(order, clicks[k])
        /\ ClickNamesLineItem(order, clicks[k])}

\* what Method 2 of findTrackingForOrder returns when the clicks held are
\* the recent clicks it is given
ReturnedForClicks ==
    LET found == matchClicks(order, clicks, 1)
    IN IF found = Thrown THEN Null ELSE found

\* C26: when several of the clicks given to the matching loop qualify, the
\* attribution returned is that of the first qualifying click in the order
\* of the list
C26_FirstQualifyingClickWins ==
    (tracker.pc # "start" /\ Cardinality(QualifyingClicks) > 1) =>
        /\ ReturnedForClicks # Null
        /\ \E k \in QualifyingClicks :
              /\ \A j \in QualifyingClicks : k <= j
              /\ ReturnedForClicks.track_id = clicks[k].track_id

====
